---- MODULE Spec2Model ----
(***************************************************************************)
(* Facility booking over UDP (mhbka/distributed-booking).                  *)
(*                                                                         *)
(* One single-threaded server (server/src: handler.rs, socket.rs, log.rs,  *)
(* facilities.rs), a client process at address "A" running                 *)
(* client/src/socket.rs, and client processes at the addresses "B" and "C" *)
(* of which only the datagrams they transmit are modelled.  The codec of   *)
(* shared/src is modelled byte by byte in the second half of the module.   *)
(***************************************************************************)
EXTENDS Integers, Sequences, FiniteSets, TLC

VARIABLES
    facilities,            \* Handler.facilities: name -> Vec<(BookingId, Booking)>
    monitoring_addresses,  \* Handler.monitoring_addresses: Vec<(addr, name, expiry)>
    log,                   \* server SenderReceiver.log: VecDeque<(Uuid, bytes)>
    use_reliability,       \* [server |-> BOOLEAN, client |-> BOOLEAN]: the two --use-reliability flags
    now,                   \* the wall clock, in seconds
    net,                   \* request datagrams in flight to the server: datagram -> copies
    inbox,                 \* datagrams queued in the socket of client "A"
    budget,                \* requests the users at "A" and at "B", "C" may still compose
    nextId,                \* counters standing for Uuid::new_v4(): booking, notification, request
    cpc,                   \* client "A": position in main/send/monitor
    creq,                  \* client "A": the RawRequest being sent
    retry,                 \* client "A": loop variable of `for retry in 0..MAX_RETRIES`
    cret,                  \* client "A": what the last call of send returned
    cexpiry,               \* client "A": expiry_time of monitor()
    sent,                  \* history: every datagram the server transmitted, in order
    handled,               \* history: the requests surfaced to the dispatcher, in order
    last,                  \* history: what the server's last receive did
    codec                  \* a value of a Byteable type, its bytes and what they decode to

vars == <<facilities, monitoring_addresses, log, use_reliability, now, net, inbox,
          budget, nextId, cpc, creq, retry, cret, cexpiry, sent, handled, last, codec>>

srvVars == <<facilities, monitoring_addresses, log>>
cliVars == <<cpc, creq, retry, cret, cexpiry>>

-----------------------------------------------------------------------------
(* Bounds of the model *)

\* requests the users at "B" and "C" compose in one behaviour of the server
MaxPeerRequests == 2
\* requests the user at "A" composes in one behaviour of the system
MaxClientRequests == 1
\* copies of one datagram the network holds at a time; a further copy is lost
MaxCopies == 2
\* last second of the clock
MaxClock == 2

(* Program constants *)

MAX_LOG_LENGTH == 50
MAX_RETRIES == 10

-----------------------------------------------------------------------------
(* shared/src/time.rs *)

Monday == 0
Tuesday == 1
Sunday == 6

Time(d, h, m) == [day |-> d, hour |-> h, minute |-> m]

\* #[derive(PartialOrd, Ord)] on Time: lexicographic over (day, hour, minute)
TimeLt(a, b) ==
    \/ a.day < b.day
    \/ a.day = b.day /\ a.hour < b.hour
    \/ a.day = b.day /\ a.hour = b.hour /\ a.minute < b.minute

TimeLe(a, b) == a = b \/ TimeLt(a, b)

NextDay(d) == IF d = Sunday THEN Monday ELSE d + 1
PrevDay(d) == IF d = Monday THEN Sunday ELSE d - 1

RECURSIVE ApplyDays(_, _, _)
ApplyDays(d, n, forward) ==
    IF n = 0 THEN d
    ELSE ApplyDays(IF forward THEN NextDay(d) ELSE PrevDay(d), n - 1, forward)

TimeOffsetWithoutCarry(t, hours, minutes, negative) ==
    IF negative
    THEN LET borrow == t.minute < minutes
             m1 == IF borrow THEN t.minute + 60 - minutes ELSE t.minute - minutes
             h1 == IF borrow THEN (IF t.hour >= 1 THEN t.hour - 1 ELSE 23) ELSE t.hour
             days == IF h1 < hours THEN 1 ELSE 0
             h2 == IF h1 < hours THEN h1 + 24 - hours ELSE h1 - hours
         IN  Time(ApplyDays(t.day, days, FALSE), h2, m1)
    ELSE LET m0 == t.minute + minutes
             m1 == IF m0 >= 60 THEN m0 % 60 ELSE m0
             h1 == t.hour + hours
         IN  Time(ApplyDays(t.day, h1 \div 24, TRUE), h1 % 24, m1)

\* Time::offset
TimeOffset(t, hours, minutes, negative) ==
    IF negative
    THEN LET borrow == t.minute < minutes
             m1 == IF borrow THEN t.minute + 60 - minutes ELSE t.minute - minutes
             h1 == IF borrow THEN (IF t.hour >= 1 THEN t.hour - 1 ELSE 23) ELSE t.hour
             days == IF h1 < hours THEN 1 ELSE 0
             h2 == IF h1 < hours THEN h1 + 24 - hours ELSE h1 - hours
         IN  Time(ApplyDays(t.day, days, FALSE), h2, m1)
    ELSE LET m0 == t.minute + minutes
             h0 == IF m0 >= 60 THEN t.hour + 1 ELSE t.hour
             m1 == IF m0 >= 60 THEN m0 % 60 ELSE m0
             h1 == h0 + hours
         IN  Time(ApplyDays(t.day, h1 \div 24, TRUE), h1 % 24, m1)

\* Time::offset on the u8 fields of Hour and Minute: every addition and
\* subtraction of the body modulo 256, and whether one of them leaves 0..255
\* (a panic when the build checks overflow, the wrapped value when it does not)
TimeOffsetU8(t, hours, minutes, negative) ==
    IF negative
    THEN LET borrow == t.minute < minutes
             m60 == t.minute + 60
             m1 == IF borrow THEN ((m60 % 256) + 256 - minutes) % 256 ELSE t.minute - minutes
             h1 == IF borrow THEN (IF t.hour >= 1 THEN t.hour - 1 ELSE 23) ELSE t.hour
             h24 == h1 + 24
             h2 == IF h1 < hours THEN ((h24 % 256) + 256 - hours) % 256 ELSE h1 - hours
         IN  [overflows |-> \/ borrow /\ (m60 > 255 \/ (m60 % 256) < minutes)
                            \/ h1 < hours /\ (h24 > 255 \/ (h24 % 256) < hours),
              time |-> Time(ApplyDays(t.day, IF h1 < hours THEN 1 ELSE 0, FALSE), h2, m1)]
    ELSE LET m0 == t.minute + minutes
             carry == (m0 % 256) >= 60
             h0 == IF carry THEN t.hour + 1 ELSE t.hour
             m1 == IF carry THEN (m0 % 256) % 60 ELSE m0 % 256
             h1 == (h0 % 256) + hours
         IN  [overflows |-> m0 > 255 \/ h0 > 255 \/ h1 > 255,
              time |-> Time(ApplyDays(t.day, (h1 % 256) \div 24, TRUE), (h1 % 256) % 24, m1)]

-----------------------------------------------------------------------------
(* server/src/facilities.rs *)

Booking(s, e) == [start_time |-> s, end_time |-> e]

Ok(v) == [ok |-> TRUE, err |-> "", val |-> v]
Err(e, v) == [ok |-> FALSE, err |-> e, val |-> v]

\* Booking::new
BookingNew(start_time, end_time) ==
    IF ~TimeLt(start_time, end_time)
    THEN Err("start is equal or after end", Booking(start_time, end_time))
    ELSE Ok(Booking(start_time, end_time))

OverlapsHalfOpen(a, b) ==
    \/ TimeLe(a.start_time, b.start_time) /\ TimeLt(b.start_time, a.end_time)
    \/ TimeLe(b.start_time, a.start_time) /\ TimeLt(a.start_time, b.end_time)

OverlapsStartInside(a, b) ==
    TimeLe(a.start_time, b.start_time) /\ TimeLe(b.start_time, a.end_time)

\* Booking::overlaps
Overlaps(a, b) ==
    \/ TimeLe(a.start_time, b.start_time) /\ TimeLe(b.start_time, a.end_time)
    \/ TimeLe(b.start_time, a.start_time) /\ TimeLe(a.start_time, b.end_time)

\* Booking::offset: the body is empty
BookingOffset(booking, hours, minutes, negative) == booking

Entry(id, booking) == [id |-> id, booking |-> booking]

AnyOverlap(bookings, booking) ==
    \E i \in 1..Len(bookings) : Overlaps(bookings[i].booking, booking)

HasId(bookings, id) == \E i \in 1..Len(bookings) : bookings[i].id = id

AddNewBookingReusesId(bookings, new_booking, new_id) ==
    IF AnyOverlap(bookings, new_booking)
    THEN Err("overlap", bookings)
    ELSE Ok(Append(bookings, Entry(1, new_booking)))

\* Facility::add_new_booking; new_id is the Uuid::new_v4() it draws
AddNewBooking(bookings, new_booking, new_id) ==
    IF AnyOverlap(bookings, new_booking)
    THEN Err("overlap", bookings)
    ELSE Ok(Append(bookings, Entry(new_id, new_booking)))

AddBookingWithIdUnlessAbsent(bookings, booking_id, booking) ==
    IF ~HasId(bookings, booking_id) THEN Err("exists", bookings)
    ELSE IF AnyOverlap(bookings, booking) THEN Err("overlap", bookings)
         ELSE Ok(Append(bookings, Entry(booking_id, booking)))

\* Facility::add_booking_with_id
AddBookingWithId(bookings, booking_id, booking) ==
    IF HasId(bookings, booking_id) THEN Err("exists", bookings)
    ELSE IF AnyOverlap(bookings, booking) THEN Err("overlap", bookings)
         ELSE Ok(Append(bookings, Entry(booking_id, booking)))

Position(bookings, id) ==
    CHOOSE i \in 1..Len(bookings) :
        bookings[i].id = id /\ \A j \in 1..(i - 1) : bookings[j].id # id

RemoveAt(s, i) == SubSeq(s, 1, i - 1) \o SubSeq(s, i + 1, Len(s))

RemoveBookingLeavesIt(bookings, booking_id) ==
    IF HasId(bookings, booking_id)
    THEN Ok([bookings |-> bookings,
             booking |-> bookings[Position(bookings, booking_id)].booking])
    ELSE Err("not found", [bookings |-> bookings, booking |-> Booking(Time(0, 0, 0), Time(0, 0, 0))])

\* Facility::remove_booking: val is [bookings, booking]
RemoveBooking(bookings, booking_id) ==
    IF HasId(bookings, booking_id)
    THEN LET pos == Position(bookings, booking_id)
         IN  Ok([bookings |-> RemoveAt(bookings, pos), booking |-> bookings[pos].booking])
    ELSE Err("not found", [bookings |-> bookings, booking |-> Booking(Time(0, 0, 0), Time(0, 0, 0))])

\* Facility::offset_booking
OffsetBooking(bookings, booking_id, hours, minutes, negative) ==
    LET removed == RemoveBooking(bookings, booking_id)
    IN  IF ~removed.ok THEN Err(removed.err, bookings)
        ELSE LET booking == removed.val.booking
                 rest == removed.val.bookings
                 offset_booking == BookingOffset(booking, hours, minutes, negative)
                 added == AddBookingWithId(rest, booking_id, offset_booking)
             IN  IF added.ok THEN Ok(added.val)
                 ELSE LET back == AddBookingWithId(added.val, booking_id, booking)
                      IN  Err(IF back.ok THEN added.err ELSE back.err, back.val)

ExtendBookingAcrossDays(bookings, booking_id, hours, minutes) ==
    LET removed == RemoveBooking(bookings, booking_id)
    IN  IF ~removed.ok THEN Err(removed.err, bookings)
        ELSE LET booking == removed.val.booking
                 rest == removed.val.bookings
                 extended == Booking(booking.start_time,
                                     TimeOffset(booking.end_time, hours, minutes, FALSE))
                 added == AddBookingWithId(rest, booking_id, extended)
             IN  IF added.ok THEN Ok(added.val)
                 ELSE LET back == AddBookingWithId(added.val, booking_id, booking)
                      IN  Err(IF back.ok THEN added.err ELSE back.err, back.val)

\* Facility::extend_booking: "same pattern, shifts only end_time; fails if it
\* would cross the day boundary or overlap"
ExtendBooking(bookings, booking_id, hours, minutes) ==
    LET removed == RemoveBooking(bookings, booking_id)
    IN  IF ~removed.ok THEN Err(removed.err, bookings)
        ELSE LET booking == removed.val.booking
                 rest == removed.val.bookings
                 extended == Booking(booking.start_time,
                                     TimeOffset(booking.end_time, hours, minutes, FALSE))
                 added == IF extended.end_time.day # extended.start_time.day
                          THEN Err("crosses the day", rest)
                          ELSE AddBookingWithId(rest, booking_id, extended)
             IN  IF added.ok THEN Ok(added.val)
                 ELSE LET back == AddBookingWithId(added.val, booking_id, booking)
                      IN  Err(IF back.ok THEN added.err ELSE back.err, back.val)

\* Facility::get_booking_details: `get(id) -> Booking?`
GetBookingDetails(bookings, id) == bookings[Position(bookings, id)]

\* Facility::get_availabilities: "sorts that day's bookings by start_time,
\* walks them in order, emits the complementary open intervals from 00:00 to
\* 23:59"
RECURSIVE OnDay(_, _)
OnDay(bookings, day) ==
    IF bookings = <<>> THEN <<>>
    ELSE (IF Head(bookings).booking.start_time.day = day
          THEN <<Head(bookings).booking>> ELSE <<>>) \o OnDay(Tail(bookings), day)

RECURSIVE InsertSorted(_, _)
InsertSorted(sorted, b) ==
    IF sorted = <<>> THEN <<b>>
    ELSE IF TimeLt(b.start_time, Head(sorted).start_time) THEN <<b>> \o sorted
         ELSE <<Head(sorted)>> \o InsertSorted(Tail(sorted), b)

RECURSIVE SortByStart(_)
SortByStart(bs) ==
    IF bs = <<>> THEN <<>> ELSE InsertSorted(SortByStart(Tail(bs)), Head(bs))

RECURSIVE FreeFrom(_, _, _)
FreeFrom(sorted, cursor, day) ==
    IF sorted = <<>>
    THEN IF TimeLt(cursor, Time(day, 23, 59)) THEN <<Booking(cursor, Time(day, 23, 59))>> ELSE <<>>
    ELSE (IF TimeLt(cursor, Head(sorted).start_time)
          THEN <<Booking(cursor, Head(sorted).start_time)>> ELSE <<>>)
         \o FreeFrom(Tail(sorted), Head(sorted).end_time, day)

GetAvailabilitiesUnsorted(bookings, day) ==
    FreeFrom(OnDay(bookings, day), Time(day, 0, 0), day)

GetAvailabilities(bookings, day) ==
    FreeFrom(SortByStart(OnDay(bookings, day)), Time(day, 0, 0), day)

-----------------------------------------------------------------------------
(* server/src/log.rs *)

LogCheckLatestEntry(l, request_id) ==
    IF \E i \in 1..Len(l) : l[i].id = request_id
    THEN [found |-> TRUE, bytes |-> l[Len(l)].bytes]
    ELSE [found |-> FALSE, bytes |-> <<>>]

\* Log::check
LogCheck(l, request_id) ==
    IF \E i \in 1..Len(l) : l[i].id = request_id
    THEN [found |-> TRUE,
          bytes |-> l[CHOOSE i \in 1..Len(l) :
                        l[i].id = request_id /\ \A j \in 1..(i - 1) : l[j].id # request_id].bytes]
    ELSE [found |-> FALSE, bytes |-> <<>>]

LogInsertNothing(l, request_id, response) == l

LogInsertUnbounded(l, request_id, response) ==
    Append(l, [id |-> request_id, bytes |-> response])

\* Log::insert
LogInsert(l, request_id, response) ==
    Append(IF Len(l) >= MAX_LOG_LENGTH THEN Tail(l) ELSE l,
           [id |-> request_id, bytes |-> response])

-----------------------------------------------------------------------------
(* server/src/handler.rs *)

\* Handler::new: the facilities, in the order of the Vec
FacilityNames == <<"MR1", "MR2", "MR3", "MR4", "MR5">>

IsFacility(name) == \E i \in 1..Len(FacilityNames) : FacilityNames[i] = name

\* the String of a response, by its parts
Message(text, id, day, avail) == [text |-> text, id |-> id, day |-> day, avail |-> avail]

RawResponse(request_id, is_error, message) ==
    [request_id |-> request_id, is_error |-> is_error, message |-> message]

\* RawResponse::to_bytes and from_bytes: the fields in declaration order
ResponseToBytes(r) == <<r.request_id, r.is_error, r.message>>
ResponseFromBytes(b) == RawResponse(b[1], b[2], b[3])

\* dedup of a sorted Vec<Day>, after sort
RECURSIVE SortedDays(_, _)
SortedDays(days, d) ==
    IF d > Sunday THEN <<>>
    ELSE (IF \E i \in 1..Len(days) : days[i] = d THEN <<d>> ELSE <<>>) \o SortedDays(days, d + 1)

\* What a handle_*_request returns and does: the Result (ok, message), the
\* facilities after it, and the (facility, day) it calls send_monitor_message with.
Handled(ok, message, facs, subs, notify) ==
    [ok |-> ok, message |-> message, facilities |-> facs, subs |-> subs, notify |-> notify]

Failed(text, facs, subs) == Handled(FALSE, Message(text, 0, 0, <<>>), facs, subs, <<>>)

\* Handler::handle_availability_request
HandleAvailabilityRequest(req, facs, subs) ==
    IF IsFacility(req.facility_name)
    THEN LET days == SortedDays(req.days, Monday)
         IN  Handled(TRUE,
                     Message("availabilities", 0, 0,
                             [i \in 1..Len(days) |->
                                 GetAvailabilities(facs[req.facility_name], days[i])]),
                     facs, subs, <<>>)
    ELSE Failed("No such facility found", facs, subs)

\* Handler::handle_booking_request
HandleBookingRequest(req, facs, subs, new_id) ==
    IF IsFacility(req.facility_name)
    THEN LET new_booking == BookingNew(req.start_time, req.end_time)
             added == AddNewBooking(facs[req.facility_name], new_booking.val, new_id)
         IN  IF ~new_booking.ok THEN Failed(new_booking.err, facs, subs)
             ELSE IF ~added.ok THEN Failed(added.err, facs, subs)
             ELSE Handled(TRUE, Message("added", new_id, 0, <<>>),
                          [facs EXCEPT ![req.facility_name] = added.val], subs,
                          <<[facility_name |-> req.facility_name, day |-> req.start_time.day]>>)
    ELSE Failed("No such facility found", facs, subs)

\* `for facility in &mut self.facilities { if let Some(..) = facility.get_booking_details(id)`
Holds(facs, id) == \E i \in 1..Len(FacilityNames) : HasId(facs[FacilityNames[i]], id)

Holder(facs, id) ==
    FacilityNames[CHOOSE i \in 1..Len(FacilityNames) :
        /\ HasId(facs[FacilityNames[i]], id)
        /\ \A j \in 1..(i - 1) : ~HasId(facs[FacilityNames[j]], id)]

AfterChangeNotifiesAnyway(changed, text, facility_name, booking_day, facs, subs) ==
    Handled(changed.ok, Message(IF changed.ok THEN text ELSE changed.err, 0, 0, <<>>),
            [facs EXCEPT ![facility_name] = changed.val], subs,
            <<[facility_name |-> facility_name, day |-> booking_day]>>)

\* the shared shape of handle_offset_request, handle_extend_request and
\* handle_cancel_request once the facility operation has run
AfterChange(changed, text, facility_name, booking_day, facs, subs) ==
    IF ~changed.ok
    THEN Handled(FALSE, Message(changed.err, 0, 0, <<>>),
                 [facs EXCEPT ![facility_name] = changed.val], subs, <<>>)
    ELSE Handled(TRUE, Message(text, 0, 0, <<>>),
                 [facs EXCEPT ![facility_name] = changed.val], subs,
                 <<[facility_name |-> facility_name, day |-> booking_day]>>)

\* Handler::handle_offset_request
HandleOffsetRequest(req, facs, subs) ==
    IF Holds(facs, req.booking_id)
    THEN LET facility_name == Holder(facs, req.booking_id)
             booking_day ==
                 GetBookingDetails(facs[facility_name], req.booking_id).booking.start_time.day
         IN  AfterChange(OffsetBooking(facs[facility_name], req.booking_id,
                                       req.offset_hours, req.offset_min, req.negative),
                         "offsetted", facility_name, booking_day, facs, subs)
    ELSE Failed("No booking ID found in any facility", facs, subs)

\* Handler::handle_extend_request
HandleExtendRequest(req, facs, subs) ==
    IF Holds(facs, req.booking_id)
    THEN LET facility_name == Holder(facs, req.booking_id)
             booking_day ==
                 GetBookingDetails(facs[facility_name], req.booking_id).booking.start_time.day
         IN  AfterChange(ExtendBooking(facs[facility_name], req.booking_id,
                                       req.extend_hours, req.extend_min),
                         "offsetted", facility_name, booking_day, facs, subs)
    ELSE Failed("No booking ID found in any facility", facs, subs)

HandleCancelRequestClearsAll(req, facs, subs) ==
    IF Holds(facs, req.booking_id)
    THEN LET facility_name == Holder(facs, req.booking_id)
             booking_day ==
                 GetBookingDetails(facs[facility_name], req.booking_id).booking.start_time.day
         IN  Handled(TRUE, Message("cancelled", 0, 0, <<>>),
                     [f \in DOMAIN facs |-> <<>>], subs,
                     <<[facility_name |-> facility_name, day |-> booking_day]>>)
    ELSE Failed("No booking with ID found", facs, subs)

\* Handler::handle_cancel_request
HandleCancelRequest(req, facs, subs) ==
    IF Holds(facs, req.booking_id)
    THEN LET facility_name == Holder(facs, req.booking_id)
             booking_day ==
                 GetBookingDetails(facs[facility_name], req.booking_id).booking.start_time.day
             removed == RemoveBooking(facs[facility_name], req.booking_id)
         IN  AfterChange([removed EXCEPT !.val = removed.val.bookings],
                         "cancelled", facility_name, booking_day, facs, subs)
    ELSE Failed("No booking with ID found", facs, subs)

HandleMonitorRequestAnyFacility(req, source_addr, facs, subs, clock) ==
    Handled(IsFacility(req.facility_name),
            Message(IF IsFacility(req.facility_name) THEN "registered" ELSE "No facility found",
                    0, 0, <<>>),
            facs,
            Append(subs, [addr |-> source_addr, facility_name |-> req.facility_name,
                          expiry |-> clock + req.seconds_to_monitor]),
            <<>>)

\* Handler::handle_monitor_request
HandleMonitorRequest(req, source_addr, facs, subs, clock) ==
    IF IsFacility(req.facility_name)
    THEN Handled(TRUE, Message("registered", 0, 0, <<>>), facs,
                 Append(subs, [addr |-> source_addr, facility_name |-> req.facility_name,
                               expiry |-> clock + req.seconds_to_monitor]),
                 <<>>)
    ELSE Failed("No facility found", facs, subs)

\* Handler::handle_message, up to the RawResponse it builds
Dispatch(req, source_addr, facs, subs, clock, new_id) ==
    LET rt == req.request_type
    IN  CASE rt.type = "Availability" -> HandleAvailabilityRequest(rt, facs, subs)
          [] rt.type = "Book" -> HandleBookingRequest(rt, facs, subs, new_id)
          [] rt.type = "Offset" -> HandleOffsetRequest(rt, facs, subs)
          [] rt.type = "Cancel" -> HandleCancelRequest(rt, facs, subs)
          [] rt.type = "Extend" -> HandleExtendRequest(rt, facs, subs)
          [] rt.type = "Monitor" -> HandleMonitorRequest(rt, source_addr, facs, subs, clock)

HandleMessageNeverError(req, h) == RawResponse(req.request_id, FALSE, h.message)

\* Handler::handle_message: the RawResponse
HandleMessage(req, h) == RawResponse(req.request_id, ~h.ok, h.message)

RetainNothingEvicted(subs, clock) == subs

\* `self.monitoring_addresses.retain(|(_, _, expiry)| expiry > &Utc::now())`
Retain(subs, clock) ==
    LET keep == {i \in 1..Len(subs) : subs[i].expiry > clock}
        F[i \in 0..Len(subs)] ==
            IF i = 0 THEN <<>>
            ELSE IF i \in keep THEN Append(F[i - 1], subs[i]) ELSE F[i - 1]
    IN  F[Len(subs)]

RelevantAddressesOfOthers(subs, facility_name) ==
    LET idx == {i \in 1..Len(subs) : subs[i].facility_name # facility_name}
        F[i \in 0..Len(subs)] ==
            IF i = 0 THEN <<>>
            ELSE IF i \in idx THEN Append(F[i - 1], subs[i]) ELSE F[i - 1]
    IN  F[Len(subs)]

\* relevant_addresses: `.filter(|(_, name, _)| name == facility_name)`
RelevantAddresses(subs, facility_name) ==
    LET idx == {i \in 1..Len(subs) : subs[i].facility_name = facility_name}
        F[i \in 0..Len(subs)] ==
            IF i = 0 THEN <<>>
            ELSE IF i \in idx THEN Append(F[i - 1], subs[i]) ELSE F[i - 1]
    IN  F[Len(subs)]

\* Handler::send_monitor_message: the subscriptions it keeps and the datagrams
\* it hands to SenderReceiver::send, in order; fresh_id is its Uuid::new_v4()
SendMonitorMessage(subs, facility_name, updated_day, facs, clock, fresh_id) ==
    LET kept == Retain(subs, clock)
        response == RawResponse(fresh_id, FALSE,
                        Message("A booking was updated", 0, updated_day,
                                GetAvailabilities(facs[facility_name], updated_day)))
        relevant == RelevantAddresses(kept, facility_name)
    IN  [subs |-> kept,
         outs |-> [i \in 1..Len(relevant) |->
                      [to |-> relevant[i].addr, response |-> response, kind |-> "notify",
                       expiry |-> relevant[i].expiry]]]

-----------------------------------------------------------------------------
(* server/src/socket.rs and Handler::run *)

\* the order in which one pass of Handler::run transmits: send_monitor_message
\* runs inside handle_message, SenderReceiver::send of the response after it
RunOutputsReplyFirst(notifications, reply) == <<reply>> \o notifications

RunOutputs(notifications, reply) == notifications \o <<reply>>

RECURSIVE SendAllLogAlways(_, _, _)
SendAllLogAlways(l, outs, reliable) ==
    IF outs = <<>> THEN l
    ELSE SendAllLogAlways(LogInsert(l, Head(outs).response.request_id,
                                    ResponseToBytes(Head(outs).response)),
                          Tail(outs), reliable)

\* SenderReceiver::send (server), its effect on the log
RECURSIVE SendAllLog(_, _, _)
SendAllLog(l, outs, reliable) ==
    IF outs = <<>> THEN l
    ELSE SendAllLog(IF reliable
                    THEN LogInsert(l, Head(outs).response.request_id,
                                   ResponseToBytes(Head(outs).response))
                    ELSE l,
                    Tail(outs), reliable)

\* SenderReceiver::send (server), the datagrams put on the wire
Transmitted(outs, op, clock) ==
    [i \in 1..Len(outs) |->
        [to |-> outs[i].to, bytes |-> ResponseToBytes(outs[i].response),
         kind |-> outs[i].kind, op |-> op, expiry |-> outs[i].expiry, at |-> clock]]

\* the datagrams among them that reach the socket of client "A"
RECURSIVE ToA(_)
ToA(wire) ==
    IF wire = <<>> THEN <<>>
    ELSE (IF Head(wire).to = "A" THEN <<Head(wire).bytes>> ELSE <<>>) \o ToA(Tail(wire))

\* net[d]: the copies of datagram d in flight, and all the copies of d the
\* network has carried; it loses what is sent beyond MaxCopies of them
InFlight(d) == d \in DOMAIN net /\ net[d].flying > 0

NetAdd(n, d, copies) ==
    LET had == IF d \in DOMAIN n THEN n[d] ELSE [flying |-> 0, carried |-> 0]
        more == IF had.carried + copies > MaxCopies THEN MaxCopies - had.carried ELSE copies
    IN  [x \in DOMAIN n \cup {d} |->
            IF x = d THEN [flying |-> had.flying + more, carried |-> had.carried + more]
            ELSE n[x]]

NetTake(n, d) == [n EXCEPT ![d].flying = @ - 1]

LastStep(kind, d, ok, err) ==
    [kind |-> kind, peer |-> d.from, id |-> d.req.request_id,
     type |-> d.req.request_type.type, req |-> d.req.request_type, ok |-> ok, err |-> err]

ServerDropAfterLookup(d) ==
    /\ InFlight(d)
    /\ LET found == use_reliability.server /\ LogCheck(log, d.req.request_id).found
           wire == IF found
                   THEN <<[to |-> d.from, bytes |-> LogCheck(log, d.req.request_id).bytes,
                           kind |-> "replay", op |-> 0, expiry |-> 0, at |-> now]>>
                   ELSE <<>>
       IN  /\ sent' = sent \o wire
           /\ inbox' = inbox \o ToA(wire)
    /\ net' = NetTake(net, d)
    /\ last' = LastStep("drop", d, FALSE, "")
    /\ UNCHANGED <<srvVars, cliVars, use_reliability, now, budget, nextId, handled, codec>>

\* SenderReceiver::receive: `if roll < self.packet_drop_rate { continue; }`
ServerDrop(d) ==
    /\ InFlight(d)
    /\ net' = NetTake(net, d)
    /\ last' = LastStep("drop", d, FALSE, "")
    /\ UNCHANGED <<srvVars, cliVars, use_reliability, now, inbox, budget, nextId,
                   sent, handled, codec>>

\* SenderReceiver::receive: the logged response is sent again and the loop goes on
ServerReplay(d) ==
    /\ InFlight(d)
    /\ use_reliability.server
    /\ LogCheck(log, d.req.request_id).found
    /\ LET wire == <<[to |-> d.from, bytes |-> LogCheck(log, d.req.request_id).bytes,
                      kind |-> "replay", op |-> 0, expiry |-> 0, at |-> now]>>
       IN  /\ sent' = sent \o wire
           /\ inbox' = inbox \o ToA(wire)
    /\ net' = NetTake(net, d)
    /\ last' = LastStep("replay", d, FALSE, "")
    /\ UNCHANGED <<srvVars, cliVars, use_reliability, now, budget, nextId, handled, codec>>

HandleAndTransmitThenLog(d, arrives) ==
    LET h == Dispatch(d.req, d.from, facilities, monitoring_addresses, now, nextId.booking)
        response == HandleMessage(d.req, h)
        mon == IF h.notify # <<>>
               THEN SendMonitorMessage(h.subs, h.notify[1].facility_name, h.notify[1].day,
                                       h.facilities, now, nextId.notification)
               ELSE [subs |-> h.subs, outs |-> <<>>]
        outs == RunOutputs(mon.outs, [to |-> d.from, response |-> response,
                                      kind |-> "response", expiry |-> 0])
        wire == IF arrives THEN Transmitted(outs, Len(handled) + 1, now) ELSE <<>>
    IN  /\ facilities' = h.facilities
        /\ monitoring_addresses' = mon.subs
        /\ log' = IF arrives THEN SendAllLog(log, outs, use_reliability.server) ELSE log
        /\ sent' = sent \o wire
        /\ inbox' = inbox \o ToA(wire)
        /\ nextId' = [nextId EXCEPT
               !.booking = IF d.req.request_type.type = "Book" /\ h.ok THEN @ + 1 ELSE @,
               !.notification = IF h.notify # <<>> THEN @ + 1 ELSE @]
        /\ last' = LastStep("handle", d, h.ok, h.message.text)
        /\ handled' = Append(handled, [id |-> d.req.request_id, from |-> d.from,
                                       req |-> d.req.request_type, at |-> now, ok |-> h.ok])

\* Handler::run, the Ok arm: handle_message on the request that receive
\* returned, then SenderReceiver::send of the response, which inserts into
\* the log and then calls send_to; when send_to returns Err the datagrams
\* are not on the wire, send returns the Err and run only logs a warning
HandleAndTransmit(d, arrives) ==
    LET h == Dispatch(d.req, d.from, facilities, monitoring_addresses, now, nextId.booking)
        response == HandleMessage(d.req, h)
        mon == IF h.notify # <<>>
               THEN SendMonitorMessage(h.subs, h.notify[1].facility_name, h.notify[1].day,
                                       h.facilities, now, nextId.notification)
               ELSE [subs |-> h.subs, outs |-> <<>>]
        outs == RunOutputs(mon.outs, [to |-> d.from, response |-> response,
                                      kind |-> "response", expiry |-> 0])
        wire == IF arrives THEN Transmitted(outs, Len(handled) + 1, now) ELSE <<>>
    IN  /\ facilities' = h.facilities
        /\ monitoring_addresses' = mon.subs
        /\ log' = SendAllLog(log, outs, use_reliability.server)
        /\ sent' = sent \o wire
        /\ inbox' = inbox \o ToA(wire)
        /\ nextId' = [nextId EXCEPT
               !.booking = IF d.req.request_type.type = "Book" /\ h.ok THEN @ + 1 ELSE @,
               !.notification = IF h.notify # <<>> THEN @ + 1 ELSE @]
        /\ last' = LastStep("handle", d, h.ok, h.message.text)
        /\ handled' = Append(handled, [id |-> d.req.request_id, from |-> d.from,
                                       req |-> d.req.request_type, at |-> now, ok |-> h.ok])

\* Handler::run, the Ok arm, when every send_to succeeds
HandleAndSend(d) == HandleAndTransmit(d, TRUE)

\* SenderReceiver::receive returns the request; Handler::run handles it and
\* sends the response
ServerHandle(d) ==
    /\ InFlight(d)
    /\ ~(use_reliability.server /\ LogCheck(log, d.req.request_id).found)
    /\ HandleAndSend(d)
    /\ net' = NetTake(net, d)
    /\ UNCHANGED <<cliVars, use_reliability, now, budget, codec>>

-----------------------------------------------------------------------------
(* The requests the users compose *)

T0900 == Time(Monday, 9, 0)
T1000 == Time(Monday, 10, 0)
T1100 == Time(Monday, 11, 0)

Book(f, s, e) == [type |-> "Book", facility_name |-> f, start_time |-> s, end_time |-> e]
Offset(id, h, m, neg) ==
    [type |-> "Offset", booking_id |-> id, offset_hours |-> h, offset_min |-> m, negative |-> neg]
Extend(id, h, m) == [type |-> "Extend", booking_id |-> id, extend_hours |-> h, extend_min |-> m]
Cancel(id) == [type |-> "Cancel", booking_id |-> id]
Monitor(f, secs) == [type |-> "Monitor", facility_name |-> f, seconds_to_monitor |-> secs]
Availability(f, days) == [type |-> "Availability", facility_name |-> f, days |-> days]

Asks(addr, rt, copies) == [addr |-> addr, rt |-> rt, copies |-> copies]

\* what the users at "C" and "B" ask the server for, and the copies of the
\* datagram their client transmits
PeerMenu ==
    { Asks("C", Book("MR1", T0900, T1000), 1), Asks("C", Book("MR1", T1000, T1100), 1),
      Asks("C", Book("MR1", T1100, Time(Tuesday, 9, 0)), 1), Asks("C", Book("MR1", T1000, T0900), 1),
      Asks("C", Book("MRX", T0900, T1000), 1),
      Asks("C", Offset(1, 1, 0, FALSE), 1), Asks("C", Extend(1, 1, 0), 1),
      Asks("C", Extend(1, 14, 0), 1), Asks("C", Cancel(1), 1),
      Asks("B", Monitor("MR1", 1), 1), Asks("B", Monitor("MR2", 1), 1),
      Asks("B", Availability("MR1", <<Monday, Monday>>), 1),
      Asks("B", Book("MR1", T0900, T1000), MaxCopies),
      Asks("B", Monitor("MR1", 1), MaxCopies) }

\* the Book request of a user at "A" who asks for nothing else
BookMR1 == Book("MR1", T0900, T1000)

\* what the user at "A" asks for
ClientMenu == { Book("MR1", T0900, T1000), Cancel(1), Monitor("MR1", 1) }

RawRequest(request_id, request_type) ==
    [request_id |-> request_id, request_type |-> request_type]

NoRequest == RawRequest(0, [type |-> "None"])
NoResponse == [kind |-> "none", response |-> RawResponse(0, FALSE, Message("", 0, 0, <<>>))]

Datagram(from, req) == [from |-> from, req |-> req]

\* a client process at "B" or "C": get_user_request, then the transmissions of
\* its send (one, or more when send transmits the request again), once its
\* earlier datagrams have left the network
PeerSend(addr, rt, copies) ==
    /\ budget.peers > 0
    /\ \A d \in DOMAIN net : d.from = addr => ~InFlight(d)
    /\ budget' = [budget EXCEPT !.peers = @ - 1]
    /\ nextId' = [nextId EXCEPT !.request = @ + 1]
    /\ net' = NetAdd(net, Datagram(addr, RawRequest(nextId.request, rt)), copies)
    /\ UNCHANGED <<srvVars, cliVars, use_reliability, now, inbox, sent, handled, last, codec>>

\* a second passes; the clock is read only against an expiry
Tick ==
    /\ now < MaxClock
    /\ monitoring_addresses # <<>> \/ cpc = "monitor"
    /\ now' = now + 1
    /\ UNCHANGED <<srvVars, cliVars, use_reliability, net, inbox, budget, nextId,
                   sent, handled, last, codec>>

-----------------------------------------------------------------------------
(* client/src/main.rs and client/src/socket.rs, the client process at "A" *)

\* SenderReceiver::send returns; main then calls monitor() after a Monitor request
Return(kind, response) ==
    /\ cret' = [kind |-> kind, response |-> response]
    /\ retry' = 0
    /\ IF creq.request_type.type = "Monitor"
       THEN /\ cpc' = "monitor"
            /\ cexpiry' = now + creq.request_type.seconds_to_monitor
       ELSE /\ cpc' = "idle"
            /\ UNCHANGED cexpiry

\* main: get_user_request, then the call of send up to its first transmission
ClientCompose(rt) ==
    /\ cpc = "idle"
    /\ budget.client > 0
    /\ budget' = [budget EXCEPT !.client = @ - 1]
    /\ nextId' = [nextId EXCEPT !.request = @ + 1]
    /\ creq' = RawRequest(nextId.request, rt)
    /\ retry' = 0
    /\ cret' = NoResponse
    /\ IF use_reliability.client
       THEN cpc' = "attempt" /\ UNCHANGED net
       ELSE cpc' = "receive once" /\ net' = NetAdd(net, Datagram("A", creq'), 1)
    /\ UNCHANGED <<srvVars, use_reliability, now, inbox, cexpiry, sent, handled, last, codec>>

ClientAttemptDuplicateOnceMore ==
    /\ cpc = "attempt"
    /\ net' = NetAdd(net, Datagram("A", creq), 1)
    /\ IF retry < MAX_RETRIES
       THEN retry' = retry + 1 /\ UNCHANGED <<cpc, cret, cexpiry>>
       ELSE Return("timeout", NoResponse.response)
    /\ UNCHANGED <<srvVars, use_reliability, now, inbox, budget, nextId, creq,
                   sent, handled, last, codec>>

\* send, reliability on: send_to, then `if roll < self.duplicate_packet_rate { continue; }`;
\* after the last attempt the for loop ends and send returns the timeout error
ClientAttemptDuplicate ==
    /\ cpc = "attempt"
    /\ net' = NetAdd(net, Datagram("A", creq), 1)
    /\ IF retry + 1 < MAX_RETRIES
       THEN retry' = retry + 1 /\ UNCHANGED <<cpc, cret, cexpiry>>
       ELSE Return("timeout", NoResponse.response)
    /\ UNCHANGED <<srvVars, use_reliability, now, inbox, budget, nextId, creq,
                   sent, handled, last, codec>>

\* send, reliability on: send_to, then the roll lets the attempt go on to receive
ClientAttemptReceive ==
    /\ cpc = "attempt"
    /\ net' = NetAdd(net, Datagram("A", creq), 1)
    /\ cpc' = "receive"
    /\ UNCHANGED <<srvVars, use_reliability, now, inbox, budget, nextId, creq, retry,
                   cret, cexpiry, sent, handled, last, codec>>

ClientReceiveAny ==
    /\ cpc = "receive"
    /\ inbox # <<>>
    /\ inbox' = Tail(inbox)
    /\ Return("ok", ResponseFromBytes(Head(inbox)))
    /\ UNCHANGED <<srvVars, use_reliability, now, net, budget, nextId, creq,
                   sent, handled, last, codec>>

\* send, reliability on: recv_from gives a datagram; another request_id is
\* skipped with `continue`, a matching one is returned
ClientReceive ==
    /\ cpc = "receive"
    /\ inbox # <<>>
    /\ inbox' = Tail(inbox)
    /\ LET response == ResponseFromBytes(Head(inbox))
       IN  IF response.request_id # creq.request_id
           THEN UNCHANGED <<cpc, retry, cret, cexpiry>>
           ELSE Return("ok", response)
    /\ UNCHANGED <<srvVars, use_reliability, now, net, budget, nextId, creq,
                   sent, handled, last, codec>>

\* send, reliability on: recv_from times out; the arm sleeps when
\* retry < MAX_RETRIES-1 and ends without leaving the inner `loop`
ClientReceiveTimeout ==
    /\ cpc = "receive"
    /\ inbox = <<>>
    /\ UNCHANGED vars

\* send, reliability off: the one recv gives a datagram, which is returned
ClientReceiveOnce ==
    /\ cpc = "receive once"
    /\ inbox # <<>>
    /\ inbox' = Tail(inbox)
    /\ Return("ok", ResponseFromBytes(Head(inbox)))
    /\ UNCHANGED <<srvVars, use_reliability, now, net, budget, nextId, creq,
                   sent, handled, last, codec>>

\* send, reliability off: the one recv times out and send returns the error
ClientReceiveOnceTimeout ==
    /\ cpc = "receive once"
    /\ inbox = <<>>
    /\ Return("error", NoResponse.response)
    /\ UNCHANGED <<srvVars, use_reliability, now, net, inbox, budget, nextId, creq,
                   sent, handled, last, codec>>

\* monitor: `while SystemTime::now() < expiry_time`, a datagram is received and printed
ClientMonitorReceive ==
    /\ cpc = "monitor"
    /\ now < cexpiry
    /\ inbox # <<>>
    /\ inbox' = Tail(inbox)
    /\ UNCHANGED <<srvVars, cliVars, use_reliability, now, net, budget, nextId,
                   sent, handled, last, codec>>

\* monitor: the loop ends at expiry_time and main goes back to get_user_request
ClientMonitorEnd ==
    /\ cpc = "monitor"
    /\ now >= cexpiry
    /\ cpc' = "idle"
    /\ cexpiry' = 0
    /\ UNCHANGED <<srvVars, use_reliability, now, net, inbox, budget, nextId, creq, retry,
                   cret, sent, handled, last, codec>>

-----------------------------------------------------------------------------
(* The system *)

CodecOff == [stage |-> "off"]

\* Handler::new, SenderReceiver::new and Log::new
Start(client_requests, peer_requests) ==
    /\ facilities = [f \in {FacilityNames[i] : i \in 1..Len(FacilityNames)} |-> <<>>]
    /\ monitoring_addresses = <<>>
    /\ log = <<>>
    /\ now = 0
    /\ net = <<>>
    /\ inbox = <<>>
    /\ budget = [client |-> client_requests, peers |-> peer_requests]
    /\ nextId = [booking |-> 1, notification |-> 201, request |-> 101]
    /\ cpc = "idle"
    /\ creq = NoRequest
    /\ retry = 0
    /\ cret = NoResponse
    /\ cexpiry = 0
    /\ sent = <<>>
    /\ handled = <<>>
    /\ last = [kind |-> "none", peer |-> "", id |-> 0, type |-> "None",
               req |-> NoRequest.request_type, ok |-> FALSE, err |-> ""]

Receive ==
    \/ \E d \in DOMAIN net : ServerDrop(d)
    \/ \E d \in DOMAIN net : ServerReplay(d)
    \/ \E d \in DOMAIN net : ServerHandle(d)

(* The server, with the datagrams of any clients at "B" and "C" *)

Init ==
    /\ Start(0, MaxPeerRequests)
    /\ codec = CodecOff
    /\ use_reliability \in [server : BOOLEAN, client : {FALSE}]

Next ==
    \/ Receive
    \/ \E ask \in PeerMenu : PeerSend(ask.addr, ask.rt, ask.copies)
    \/ Tick

Spec == Init /\ [][Next]_vars

(* The server and the client at "A" *)

SystemInit ==
    /\ Start(MaxClientRequests, 0)
    /\ codec = CodecOff
    /\ use_reliability \in [server : BOOLEAN, client : BOOLEAN]

Client ==
    \/ \E rt \in ClientMenu : ClientCompose(rt)
    \/ ClientAttemptDuplicate
    \/ ClientAttemptReceive
    \/ ClientReceive
    \/ ClientReceiveTimeout
    \/ ClientReceiveOnce
    \/ ClientReceiveOnceTimeout
    \/ ClientMonitorReceive
    \/ ClientMonitorEnd

SystemNext ==
    \/ Receive
    \/ Client
    \/ Tick

SystemSpec == SystemInit /\ [][SystemNext]_vars

\* the server and the client at "A" as processes that keep running: the
\* server's loop in Handler::run and the client's main loop never stop
FairSystemSpec ==
    SystemInit /\ [][SystemNext]_vars /\ WF_vars(Receive) /\ WF_vars(Client)

(* The server with reliability on and no drops, the client at "A" with
   reliability on, and a client at "B" that keeps the server busy once the
   send at "A" has returned a response *)

FloodRequests == 50

FloodInit ==
    /\ Start(1, FloodRequests)
    /\ codec = CodecOff
    /\ use_reliability = [server |-> TRUE, client |-> TRUE]

FloodNext ==
    \/ \E d \in DOMAIN net : ServerReplay(d)
    \/ \E d \in DOMAIN net : ServerHandle(d)
    \/ ClientCompose(BookMR1)
    \/ ClientAttemptDuplicate
    \/ ClientAttemptReceive
    \/ ClientReceive
    \/ ClientReceiveTimeout
    \/ cpc = "idle" /\ cret.kind = "ok" /\ PeerSend("B", Availability("MR1", <<Monday>>), 1)

FloodSpec == FloodInit /\ [][FloodNext]_vars

(* The server with reliability on, no drops, and a network that may fail the
   server's send_to toward "A" or lose a datagram on its way to "A"; the
   client at "A" with reliability on, and a client at "B" that keeps the
   server busy once the send at "A" has returned a response *)

LossSpec ==
    /\ Start(1, FloodRequests)
    /\ codec = CodecOff
    /\ use_reliability = [server |-> TRUE, client |-> TRUE]
    /\ [][\/ \E d \in DOMAIN net : ServerReplay(d)
          \/ \E d \in DOMAIN net :
                \E arrives \in IF d.from = "A" THEN BOOLEAN ELSE {TRUE} :
                   /\ InFlight(d)
                   /\ ~(use_reliability.server /\ LogCheck(log, d.req.request_id).found)
                   /\ HandleAndTransmit(d, arrives)
                   /\ net' = NetTake(net, d)
                   /\ UNCHANGED <<cliVars, use_reliability, now, budget, codec>>
          \/ /\ inbox # <<>>
             /\ inbox' = Tail(inbox)
             /\ UNCHANGED <<srvVars, cliVars, use_reliability, now, net, budget, nextId,
                            sent, handled, last, codec>>
          \/ ClientCompose(BookMR1)
          \/ ClientAttemptDuplicate
          \/ ClientAttemptReceive
          \/ ClientReceive
          \/ ClientReceiveTimeout
          \/ cpc = "idle" /\ cret.kind = "ok"
                /\ PeerSend("B", Availability("MR1", <<Monday>>), 1)]_vars

(* The server, and the client at "A" with reliability on, whose user books
   the same slot of MR1 twice, with one request after the other *)

RetryInit ==
    /\ Start(2, 0)
    /\ codec = CodecOff
    /\ use_reliability \in [server : BOOLEAN, client : {TRUE}]

RetryNext ==
    \/ Receive
    \/ ClientCompose(BookMR1)
    \/ ClientAttemptDuplicate
    \/ ClientAttemptReceive
    \/ ClientReceive
    \/ ClientReceiveTimeout

RetrySpec == RetryInit /\ [][RetryNext]_vars

(* The server with reliability on and no drops, a client at "C" whose Book
   request is transmitted MaxCopies times, and a client at "B" that
   subscribes to MR1, once or twice, and then moves the booking again and
   again *)

NotifyRequests == 27

NotifySpec ==
    /\ Start(0, NotifyRequests)
    /\ codec = CodecOff
    /\ use_reliability = [server |-> TRUE, client |-> FALSE]
    /\ [][\/ \E d \in DOMAIN net : ServerReplay(d)
          \/ \E d \in DOMAIN net : ServerHandle(d)
          \/ budget.peers = NotifyRequests /\ PeerSend("C", BookMR1, MaxCopies)
          \/ handled # <<>> /\ Len(handled) = 1 + Len(monitoring_addresses)
                /\ Len(monitoring_addresses) < 2
                /\ PeerSend("B", Monitor("MR1", 1), 1)
          \/ monitoring_addresses # <<>>
                /\ PeerSend("B", Offset(1, 1, 0, FALSE), 1)]_vars

(* The server, and the client at "A" with reliability off, whose user makes
   two requests *)

OnceSpec ==
    /\ Start(2, 0)
    /\ codec = CodecOff
    /\ use_reliability \in [server : BOOLEAN, client : {FALSE}]
    /\ [][\/ \E d \in DOMAIN net : ServerDrop(d)
          \/ \E d \in DOMAIN net : ServerHandle(d)
          \/ \E rt \in ClientMenu : ClientCompose(rt)
          \/ ClientReceiveOnce
          \/ ClientReceiveOnceTimeout
          \/ ClientMonitorReceive
          \/ ClientMonitorEnd
          \/ Tick]_vars

(* The server with reliability off and no drops, and one client at "C" whose
   user changes the bookings of MR1 and MR2, one request after the other *)

MaxBookingRequests == 3

BookingMenu ==
    { Book("MR1", T0900, T1000), Book("MR1", T1000, T1100), Book("MR1", T1100, Time(Monday, 12, 0)),
      Offset(1, 1, 0, FALSE), Offset(1, 14, 30, FALSE),
      Extend(1, 0, 30), Extend(1, 1, 0), Extend(1, 14, 0),
      Cancel(1), Availability("MR1", <<Monday>>),
      Book("MRX", T0900, T1000), Availability("MRX", <<Monday>>),
      Book("MR2", T0900, T1000),
      Monitor("MR1", 1), Monitor("MR2", 1), Monitor("MRX", 1) }

BookingInit ==
    /\ Start(0, MaxBookingRequests)
    /\ codec = CodecOff
    /\ use_reliability = [server |-> FALSE, client |-> FALSE]

BookingNext ==
    \/ \E d \in DOMAIN net : ServerHandle(d)
    \/ \E rt \in BookingMenu : PeerSend("C", rt, 1)

BookingSpec == BookingInit /\ [][BookingNext]_vars

-----------------------------------------------------------------------------
(* shared/src/lib.rs, shared/src/time.rs, shared/src/requests.rs and
   shared/src/responses.rs: Byteable. A Vec<u8> is a sequence of numbers in
   0..255; from_bytes gives the Result and what it leaves of the Vec. *)

U16Range == 65536

Decoded(val, rest) == [ok |-> TRUE, val |-> val, rest |-> rest]
DecodeError(rest) == [ok |-> FALSE, val |-> <<>>, rest |-> rest]

Drain(data, n) == SubSeq(data, n + 1, Len(data))

\* impl Byteable for bool
BoolToBytes(b) == IF b THEN <<1>> ELSE <<0>>
BoolFromBytes(data) ==
    IF Len(data) >= 1 THEN Decoded(data[1] >= 1, Drain(data, 1)) ELSE DecodeError(data)

\* impl Byteable for u8
U8ToBytes(n) == <<n>>
U8FromBytes(data) ==
    IF Len(data) >= 1 THEN Decoded(data[1], Drain(data, 1)) ELSE DecodeError(data)

\* impl Byteable for u16: to_ne_bytes and from_ne_bytes, in the byte order of
\* the machine
U16ToBytes(n, endian) ==
    IF endian = "little" THEN <<n % 256, n \div 256>> ELSE <<n \div 256, n % 256>>

U16FromBytes(data, endian) ==
    IF Len(data) >= 2
    THEN Decoded(IF endian = "little" THEN data[1] + data[2] * 256 ELSE data[1] * 256 + data[2],
                 Drain(data, 2))
    ELSE DecodeError(data)

\* impl Byteable for Uuid: the 16 bytes
UuidToBytes(u) == u
UuidFromBytes(data) ==
    IF Len(data) >= 16 THEN Decoded(SubSeq(data, 1, 16), Drain(data, 16)) ELSE DecodeError(data)

\* String::from_utf8, for the one-byte code points
IsUtf8(bytes) == \A i \in 1..Len(bytes) : bytes[i] < 128

\* impl Byteable for String: `(self.len() as u16).to_bytes()`, then the bytes
StringToBytes(str, endian) == U16ToBytes(Len(str) % U16Range, endian) \o str
StringFromBytes(data, endian) ==
    LET length == U16FromBytes(data, endian)
    IN  IF ~length.ok THEN DecodeError(length.rest)
        ELSE IF Len(length.rest) >= length.val
             THEN IF IsUtf8(SubSeq(length.rest, 1, length.val))
                  THEN Decoded(SubSeq(length.rest, 1, length.val), Drain(length.rest, length.val))
                  ELSE DecodeError(Drain(length.rest, length.val))
             ELSE DecodeError(length.rest)

\* Day::to_u8 and Day::from_u8, impl Byteable for Day
DayToBytes(day) == U8ToBytes(day)
DayFromBytes(data) ==
    LET val == U8FromBytes(data)
    IN  IF ~val.ok THEN val
        ELSE IF val.val <= Sunday THEN val ELSE DecodeError(val.rest)

\* impl Byteable for Hour and for Minute: the u8, unchecked
HourToBytes(hour) == U8ToBytes(hour)
HourFromBytes(data) == U8FromBytes(data)
MinuteToBytes(minute) == U8ToBytes(minute)
MinuteFromBytes(data) == U8FromBytes(data)

\* ByteableDerive for Time: day, hour, minute
TimeToBytes(t) == DayToBytes(t.day) \o HourToBytes(t.hour) \o MinuteToBytes(t.minute)
TimeFromBytes(data) ==
    LET day == DayFromBytes(data)
        hour == HourFromBytes(day.rest)
        minute == MinuteFromBytes(hour.rest)
    IN  IF ~day.ok THEN DecodeError(day.rest)
        ELSE IF ~hour.ok THEN DecodeError(hour.rest)
        ELSE IF ~minute.ok THEN DecodeError(minute.rest)
        ELSE Decoded(Time(day.val, hour.val, minute.val), minute.rest)

\* impl Byteable for Vec<T>, T = Day: the byte count as u16, then the items;
\* from_bytes parses items until the drained bytes are used up
RECURSIVE DaysToBytes(_)
DaysToBytes(days) ==
    IF days = <<>> THEN <<>> ELSE DayToBytes(Head(days)) \o DaysToBytes(Tail(days))

RECURSIVE DaysFromPayload(_)
DaysFromPayload(bytes) ==
    IF bytes = <<>> THEN Decoded(<<>>, <<>>)
    ELSE LET item == DayFromBytes(bytes)
             more == DaysFromPayload(item.rest)
         IN  IF ~item.ok THEN DecodeError(item.rest)
             ELSE IF ~more.ok THEN more
             ELSE Decoded(<<item.val>> \o more.val, <<>>)

VecDayToBytes(days, endian) ==
    U16ToBytes(Len(DaysToBytes(days)) % U16Range, endian) \o DaysToBytes(days)
VecDayFromBytes(data, endian) ==
    LET length == U16FromBytes(data, endian)
    IN  IF ~length.ok THEN DecodeError(length.rest)
        ELSE IF Len(length.rest) >= length.val
             THEN LET items == DaysFromPayload(SubSeq(length.rest, 1, length.val))
                  IN  IF items.ok THEN Decoded(items.val, Drain(length.rest, length.val))
                      ELSE DecodeError(Drain(length.rest, length.val))
             ELSE DecodeError(length.rest)

\* impl Byteable for Vec<T>, T = u8
VecU8ToBytes(bytes, endian) == U16ToBytes(Len(bytes) % U16Range, endian) \o bytes
VecU8FromBytes(data, endian) ==
    LET length == U16FromBytes(data, endian)
    IN  IF ~length.ok THEN DecodeError(length.rest)
        ELSE IF Len(length.rest) >= length.val
             THEN Decoded(SubSeq(length.rest, 1, length.val), Drain(length.rest, length.val))
             ELSE DecodeError(length.rest)

\* ByteableDerive for the six request structs: the fields in declaration order
AvailabilityRequestToBytes(r, endian) ==
    StringToBytes(r.facility_name, endian) \o VecDayToBytes(r.days, endian)
AvailabilityRequestFromBytes(data, endian) ==
    LET facility_name == StringFromBytes(data, endian)
        days == VecDayFromBytes(facility_name.rest, endian)
    IN  IF ~facility_name.ok THEN DecodeError(facility_name.rest)
        ELSE IF ~days.ok THEN DecodeError(days.rest)
        ELSE Decoded(Availability(facility_name.val, days.val), days.rest)

BookRequestToBytes(r, endian) ==
    StringToBytes(r.facility_name, endian) \o TimeToBytes(r.start_time) \o TimeToBytes(r.end_time)
BookRequestFromBytes(data, endian) ==
    LET facility_name == StringFromBytes(data, endian)
        start_time == TimeFromBytes(facility_name.rest)
        end_time == TimeFromBytes(start_time.rest)
    IN  IF ~facility_name.ok THEN DecodeError(facility_name.rest)
        ELSE IF ~start_time.ok THEN DecodeError(start_time.rest)
        ELSE IF ~end_time.ok THEN DecodeError(end_time.rest)
        ELSE Decoded(Book(facility_name.val, start_time.val, end_time.val), end_time.rest)

OffsetBookingRequestToBytes(r) ==
    UuidToBytes(r.booking_id) \o HourToBytes(r.offset_hours) \o MinuteToBytes(r.offset_min)
        \o BoolToBytes(r.negative)
OffsetBookingRequestFromBytes(data) ==
    LET booking_id == UuidFromBytes(data)
        offset_hours == HourFromBytes(booking_id.rest)
        offset_min == MinuteFromBytes(offset_hours.rest)
        negative == BoolFromBytes(offset_min.rest)
    IN  IF ~booking_id.ok THEN DecodeError(booking_id.rest)
        ELSE IF ~offset_hours.ok THEN DecodeError(offset_hours.rest)
        ELSE IF ~offset_min.ok THEN DecodeError(offset_min.rest)
        ELSE IF ~negative.ok THEN DecodeError(negative.rest)
        ELSE Decoded(Offset(booking_id.val, offset_hours.val, offset_min.val, negative.val),
                     negative.rest)

CancelBookingRequestToBytes(r) == UuidToBytes(r.booking_id)
CancelBookingRequestFromBytes(data) ==
    LET booking_id == UuidFromBytes(data)
    IN  IF ~booking_id.ok THEN DecodeError(booking_id.rest)
        ELSE Decoded(Cancel(booking_id.val), booking_id.rest)

ExtendBookingRequestToBytes(r) ==
    UuidToBytes(r.booking_id) \o HourToBytes(r.extend_hours) \o MinuteToBytes(r.extend_min)
ExtendBookingRequestFromBytes(data) ==
    LET booking_id == UuidFromBytes(data)
        extend_hours == HourFromBytes(booking_id.rest)
        extend_min == MinuteFromBytes(extend_hours.rest)
    IN  IF ~booking_id.ok THEN DecodeError(booking_id.rest)
        ELSE IF ~extend_hours.ok THEN DecodeError(extend_hours.rest)
        ELSE IF ~extend_min.ok THEN DecodeError(extend_min.rest)
        ELSE Decoded(Extend(booking_id.val, extend_hours.val, extend_min.val), extend_min.rest)

MonitorFacilityRequestToBytes(r, endian) ==
    StringToBytes(r.facility_name, endian) \o U8ToBytes(r.seconds_to_monitor)
MonitorFacilityRequestFromBytes(data, endian) ==
    LET facility_name == StringFromBytes(data, endian)
        seconds_to_monitor == U8FromBytes(facility_name.rest)
    IN  IF ~facility_name.ok THEN DecodeError(facility_name.rest)
        ELSE IF ~seconds_to_monitor.ok THEN DecodeError(seconds_to_monitor.rest)
        ELSE Decoded(Monitor(facility_name.val, seconds_to_monitor.val), seconds_to_monitor.rest)

\* impl Byteable for RequestType, to_bytes: `request_bytes.insert(0, <discriminant>)`
RequestTypeToBytesMonitorLast(rt, endian) ==
    CASE rt.type = "Availability" -> <<0>> \o AvailabilityRequestToBytes(rt, endian)
      [] rt.type = "Book" -> <<1>> \o BookRequestToBytes(rt, endian)
      [] rt.type = "Offset" -> <<2>> \o OffsetBookingRequestToBytes(rt)
      [] rt.type = "Cancel" -> <<3>> \o CancelBookingRequestToBytes(rt)
      [] rt.type = "Extend" -> <<4>> \o ExtendBookingRequestToBytes(rt)
      [] rt.type = "Monitor" -> <<5>> \o MonitorFacilityRequestToBytes(rt, endian)

RequestTypeToBytes(rt, endian) ==
    CASE rt.type = "Availability" -> <<0>> \o AvailabilityRequestToBytes(rt, endian)
      [] rt.type = "Book" -> <<1>> \o BookRequestToBytes(rt, endian)
      [] rt.type = "Offset" -> <<2>> \o OffsetBookingRequestToBytes(rt)
      [] rt.type = "Monitor" -> <<3>> \o MonitorFacilityRequestToBytes(rt, endian)
      [] rt.type = "Cancel" -> <<4>> \o CancelBookingRequestToBytes(rt)
      [] rt.type = "Extend" -> <<5>> \o ExtendBookingRequestToBytes(rt)

\* impl Byteable for RequestType, from_bytes
RequestTypeFromBytes(data, endian) ==
    LET discriminant == U8FromBytes(data)
    IN  IF ~discriminant.ok THEN DecodeError(discriminant.rest)
        ELSE CASE discriminant.val = 0 -> AvailabilityRequestFromBytes(discriminant.rest, endian)
               [] discriminant.val = 1 -> BookRequestFromBytes(discriminant.rest, endian)
               [] discriminant.val = 2 -> OffsetBookingRequestFromBytes(discriminant.rest)
               [] discriminant.val = 3 -> MonitorFacilityRequestFromBytes(discriminant.rest, endian)
               [] discriminant.val = 4 -> CancelBookingRequestFromBytes(discriminant.rest)
               [] discriminant.val = 5 -> ExtendBookingRequestFromBytes(discriminant.rest)
               [] OTHER -> DecodeError(discriminant.rest)

\* ByteableDerive for RawRequest: request_id, request_type
RawRequestToBytes(r, endian) ==
    UuidToBytes(r.request_id) \o RequestTypeToBytes(r.request_type, endian)
RawRequestFromBytes(data, endian) ==
    LET request_id == UuidFromBytes(data)
        request_type == RequestTypeFromBytes(request_id.rest, endian)
    IN  IF ~request_id.ok THEN DecodeError(request_id.rest)
        ELSE IF ~request_type.ok THEN DecodeError(request_type.rest)
        ELSE Decoded(RawRequest(request_id.val, request_type.val), request_type.rest)

\* RawResponse::from_string of shared/src/responses.rs
RawResponseFromString(request_id, is_error, string) ==
    [request_id |-> request_id, is_error |-> is_error,
     length |-> Len(string) % U16Range, data |-> string]

\* ByteableDerive for the RawResponse of shared/src/responses.rs: request_id,
\* is_error, length, data
RawResponseToBytes(r, endian) ==
    UuidToBytes(r.request_id) \o U8ToBytes(r.is_error) \o U16ToBytes(r.length, endian)
        \o VecU8ToBytes(r.data, endian)
RawResponseFromBytes(data, endian) ==
    LET request_id == UuidFromBytes(data)
        is_error == U8FromBytes(request_id.rest)
        length == U16FromBytes(is_error.rest, endian)
        payload == VecU8FromBytes(length.rest, endian)
    IN  IF ~request_id.ok THEN DecodeError(request_id.rest)
        ELSE IF ~is_error.ok THEN DecodeError(is_error.rest)
        ELSE IF ~length.ok THEN DecodeError(length.rest)
        ELSE IF ~payload.ok THEN DecodeError(payload.rest)
        ELSE Decoded([request_id |-> request_id.val, is_error |-> is_error.val,
                      length |-> length.val, data |-> payload.val], payload.rest)

(* The values that are encoded and decoded *)

\* the longest facility name and message, in bytes
MaxStringLen == 65536

\* a Uuid whose 16 bytes are k
UuidOf(k) == [i \in 1..16 |-> k]

\* a String of n bytes: "MR1", "MR2", ... repeated
StringOf(n) == [i \in 1..n |-> IF i % 3 = 1 THEN 77 ELSE IF i % 3 = 2 THEN 82 ELSE 49]

StringLens == {0, 3, 255, 256, MaxStringLen}

CodecTimes == {Time(Monday, 0, 0), Time(Tuesday, 9, 30), Time(Sunday, 23, 59)}

CodecRequestTypes ==
    {Availability(StringOf(n), days) :
        n \in StringLens, days \in {<<>>, <<Monday>>, <<Sunday, Monday, Tuesday>>}}
    \cup {Book(StringOf(n), s, e) : n \in StringLens, s \in CodecTimes, e \in CodecTimes}
    \cup {Offset(UuidOf(k), h, m, neg) :
            k \in {0, 255}, h \in {0, 23}, m \in {0, 59}, neg \in BOOLEAN}
    \cup {Monitor(StringOf(n), secs) : n \in StringLens, secs \in {0, 1, 255}}
    \cup {Cancel(UuidOf(k)) : k \in {0, 7, 255}}
    \cup {Extend(UuidOf(k), h, m) : k \in {0, 255}, h \in {0, 23}, m \in {0, 59}}

CodecValues ==
    {[kind |-> "RawRequest", value |-> RawRequest(UuidOf(k), rt)] :
        k \in {1, 254}, rt \in CodecRequestTypes}
    \cup {[kind |-> "RawResponse", value |-> RawResponseFromString(UuidOf(k), e, StringOf(n))] :
            k \in {1, 254}, e \in {0, 1}, n \in StringLens}

\* to_bytes of the value a process holds
Encode ==
    /\ codec.stage = "value"
    /\ codec' = [stage |-> "bytes", kind |-> codec.kind, endian |-> codec.endian,
                 value |-> codec.value,
                 bytes |-> IF codec.kind = "RawRequest"
                           THEN RawRequestToBytes(codec.value, codec.endian)
                           ELSE RawResponseToBytes(codec.value, codec.endian)]
    /\ UNCHANGED <<srvVars, cliVars, use_reliability, now, net, inbox, budget, nextId,
                   sent, handled, last>>

\* from_bytes of the datagram
Decode ==
    /\ codec.stage = "bytes"
    /\ codec' = [stage |-> "decoded", kind |-> codec.kind, endian |-> codec.endian,
                 value |-> codec.value, bytes |-> codec.bytes,
                 result |-> IF codec.kind = "RawRequest"
                            THEN RawRequestFromBytes(codec.bytes, codec.endian)
                            ELSE RawResponseFromBytes(codec.bytes, codec.endian)]
    /\ UNCHANGED <<srvVars, cliVars, use_reliability, now, net, inbox, budget, nextId,
                   sent, handled, last>>

CodecInit ==
    /\ Start(0, 0)
    /\ use_reliability = [server |-> FALSE, client |-> FALSE]
    /\ \E v \in CodecValues : \E endian \in {"little", "big"} :
           codec = [stage |-> "value", kind |-> v.kind, endian |-> endian, value |-> v.value]

CodecSpec == CodecInit /\ [][Encode \/ Decode]_vars

-----------------------------------------------------------------------------
(* server/src/socket.rs and server/src/handler.rs on the bytes of a datagram:
   the server with reliability off and a drop rate of 0, and a peer at "C"
   whose datagrams are any bytes *)

MaxWireRequests == 2

\* `const BUF_SIZE: usize = u16::MAX as usize;`
BUF_SIZE == 65535

\* `let mut buf = vec![0; BUF_SIZE];` after recv_from has written the
\* datagram to its front: the length of buf stays BUF_SIZE
Zeroed == [i \in 1..BUF_SIZE |-> 0]

Buffer(bytes) ==
    IF Len(bytes) >= BUF_SIZE THEN SubSeq(bytes, 1, BUF_SIZE)
    ELSE bytes \o SubSeq(Zeroed, 1, BUF_SIZE - Len(bytes))

\* the Uuid as the id it is for the handler: k for the Uuid whose bytes are
\* all k, and 0, the id of no booking, for any other
IdOf(uuid) == IF uuid = UuidOf(uuid[1]) THEN uuid[1] ELSE 0

\* the String as the name it is for the handler: the facility it names, or a
\* name of no facility
NameOf(str) ==
    IF \E i \in 1..Len(FacilityNames) : str = <<77, 82, 48 + i>>
    THEN FacilityNames[CHOOSE i \in 1..Len(FacilityNames) : str = <<77, 82, 48 + i>>]
    ELSE ""

\* the decoded RawRequest as the handler sees it
Surfaced(r) ==
    LET rt == r.request_type
    IN  RawRequest(IdOf(r.request_id),
            CASE rt.type \in {"Availability", "Book", "Monitor"} ->
                     [rt EXCEPT !.facility_name = NameOf(@)]
              [] rt.type \in {"Offset", "Cancel", "Extend"} ->
                     [rt EXCEPT !.booking_id = IdOf(@)])

\* the requests whose encodings the peer sends, as they are or damaged
WireRequests ==
    { Book(StringOf(3), T0900, T1000), Book(StringOf(3), Time(Monday, 24, 0), Time(Monday, 25, 60)),
      Monitor(StringOf(3), 1), Availability(StringOf(3), <<Monday>>),
      Cancel(UuidOf(1)), Extend(UuidOf(1), 0, 30) }

\* what the peer puts on the wire: encoded requests; encodings cut short; a
\* discriminant above 5; a Day above 6; a name that is not UTF-8; a length
\* prefix of a name above the bytes that follow it
WireMenu(endian) ==
    LET Encoded(rt) == RawRequestToBytes(RawRequest(UuidOf(101), rt), endian)
        WithByte(bytes, i, b) == [bytes EXCEPT ![i] = b]
    IN  {Encoded(rt) : rt \in WireRequests}
        \cup {SubSeq(Encoded(Monitor(StringOf(3), 1)), 1, n) : n \in {0, 16, 20, 22}}
        \cup {SubSeq(Encoded(Book(StringOf(3), T0900, T1000)), 1, 25)}
        \cup {WithByte(Encoded(Monitor(StringOf(3), 1)), 17, d) : d \in {6, 255}}
        \cup {WithByte(Encoded(Book(StringOf(3), T0900, T1000)), 23, 7)}
        \cup {WithByte(Encoded(Availability(StringOf(3), <<Monday>>)), 25, 7)}
        \cup {WithByte(Encoded(Monitor(StringOf(3), 1)), 21, 200)}
        \cup {UuidOf(101) \o <<3>> \o U16ToBytes(n, endian) \o StringOf(3) : n \in {4, 65535}}

\* a client process at "C" sends a datagram
PeerTransmit(bytes) ==
    /\ codec.stage \in {"listening", "returned", "failed"}
    /\ budget.peers > 0
    /\ budget' = [budget EXCEPT !.peers = @ - 1]
    /\ codec' = [stage |-> "received", endian |-> codec.endian, bytes |-> bytes]
    /\ UNCHANGED <<srvVars, cliVars, use_reliability, now, net, inbox, nextId,
                   sent, handled, last>>

\* Handler::run, one pass of its loop: SenderReceiver::receive decodes buf;
\* on Ok the request is handled and answered, on Err the error is logged
ServerReceive ==
    /\ codec.stage = "received"
    /\ LET request == RawRequestFromBytes(Buffer(codec.bytes), codec.endian)
       IN  IF request.ok
           THEN /\ HandleAndSend(Datagram("C", Surfaced(request.val)))
                /\ codec' = [codec EXCEPT !.stage = "returned"]
           ELSE /\ codec' = [codec EXCEPT !.stage = "failed"]
                /\ UNCHANGED <<srvVars, inbox, nextId, sent, handled, last>>
    /\ UNCHANGED <<cliVars, use_reliability, now, net, budget>>

WireInit ==
    /\ Start(0, MaxWireRequests)
    /\ use_reliability = [server |-> FALSE, client |-> FALSE]
    /\ \E endian \in {"little", "big"} :
           codec = [stage |-> "listening", endian |-> endian, bytes |-> <<>>]

WireNext ==
    \/ \E bytes \in WireMenu(codec.endian) : PeerTransmit(bytes)
    \/ ServerReceive

WireSpec == WireInit /\ [][WireNext]_vars

-----------------------------------------------------------------------------
(* shared/src/time.rs: Time::offset on valid times and offsets *)

\* `self.offset(hours, minutes, negative)`
ApplyOffset ==
    /\ codec.stage = "time"
    /\ codec' = [stage |-> "offset", t |-> codec.t, hours |-> codec.hours,
                 minutes |-> codec.minutes, negative |-> codec.negative,
                 result |-> TimeOffset(codec.t, codec.hours, codec.minutes, codec.negative)]
    /\ UNCHANGED <<srvVars, cliVars, use_reliability, now, net, inbox, budget, nextId,
                   sent, handled, last>>

TimeInit ==
    /\ Start(0, 0)
    /\ use_reliability = [server |-> FALSE, client |-> FALSE]
    /\ \E t \in {Time(d, h, m) : d \in Monday..Sunday, h \in {0, 11, 23}, m \in {0, 30, 59}} :
       \E hours \in 0..23 : \E minutes \in {0, 1, 29, 30, 31, 59} : \E negative \in BOOLEAN :
           codec = [stage |-> "time", t |-> t, hours |-> hours, minutes |-> minutes,
                    negative |-> negative]

TimeSpec == TimeInit /\ [][ApplyOffset]_vars

(* shared/src/time.rs: Time::offset on a Time, an Hour and a Minute as the
   server decodes them from the bytes of a request *)

DecodedTimeSpec ==
    /\ Start(0, 0)
    /\ use_reliability = [server |-> FALSE, client |-> FALSE]
    /\ \E day \in {Monday, Sunday} : \E hour, hours \in {0, 23, 255} :
       \E minute, minutes \in {0, 59, 255} : \E negative \in BOOLEAN :
           codec = [stage |-> "time bytes", t |-> <<day, hour, minute>>, hours |-> <<hours>>,
                    minutes |-> <<minutes>>, negative |-> negative]
    /\ [][/\ codec.stage = "time bytes"
          /\ LET t == TimeFromBytes(codec.t).val
                 hours == HourFromBytes(codec.hours).val
                 minutes == MinuteFromBytes(codec.minutes).val
                 out == TimeOffsetU8(t, hours, minutes, codec.negative)
             IN  \E outcome \in IF out.overflows THEN {"panicked", "wrapped"}
                                                 ELSE {"returned"} :
                    codec' = [stage |-> "decoded offset", t |-> t, hours |-> hours,
                              minutes |-> minutes, negative |-> codec.negative,
                              outcome |-> outcome, result |-> out.time]
          /\ UNCHANGED <<srvVars, cliVars, use_reliability, now, net, inbox, budget, nextId,
                         sent, handled, last>>]_vars

-----------------------------------------------------------------------------
(* server/src/duplicates.rs: DuplicatesCache, duplicates as a function from
   the addresses that have an entry to (request_id, response) *)

\* DuplicatesCache::check
DuplicatesCheck(duplicates, addr, request_id) ==
    IF addr \in DOMAIN duplicates
    THEN IF duplicates[addr].latest_id = request_id
         THEN [some |-> TRUE, data |-> duplicates[addr].data]
         ELSE [some |-> FALSE, data |-> ""]
    ELSE [some |-> FALSE, data |-> ""]

DuplicatesInsertEntryKeepsFirst(duplicates, addr, request_id, response) ==
    [a \in DOMAIN duplicates \cup {addr} |->
        IF a \in DOMAIN duplicates THEN duplicates[a]
        ELSE [latest_id |-> request_id, data |-> response]]

\* DuplicatesCache::insert_entry: HashMap::insert replaces the entry of addr
DuplicatesInsertEntry(duplicates, addr, request_id, response) ==
    [a \in DOMAIN duplicates \cup {addr} |->
        IF a = addr THEN [latest_id |-> request_id, data |-> response] ELSE duplicates[a]]

MaxInserts == 3

\* DuplicatesCache::new, then insert_entry and check in any order, for two
\* addresses, two request ids and two responses; inserted is the history of
\* the insert_entry calls and result the last check with what it returned
CacheSpec ==
    /\ Start(0, 0)
    /\ use_reliability = [server |-> TRUE, client |-> FALSE]
    /\ codec = [stage |-> "cache", duplicates |-> <<>>, inserted |-> <<>>,
                result |-> [addr |-> "", request_id |-> 0, out |-> [some |-> FALSE, data |-> ""]]]
    /\ [][\/ \E addr \in {"A", "B"} : \E request_id \in {101, 102} :
             \E response \in {"first", "second"} :
                /\ Len(codec.inserted) < MaxInserts
                /\ codec' = [codec EXCEPT
                       !.duplicates = DuplicatesInsertEntry(@, addr, request_id, response),
                       !.inserted = Append(@, [addr |-> addr, request_id |-> request_id,
                                               response |-> response])]
                /\ UNCHANGED <<srvVars, cliVars, use_reliability, now, net, inbox, budget,
                               nextId, sent, handled, last>>
          \/ \E addr \in {"A", "B"} : \E request_id \in {101, 102} :
                /\ codec' = [codec EXCEPT
                       !.result = [addr |-> addr, request_id |-> request_id,
                                   out |-> DuplicatesCheck(codec.duplicates, addr, request_id)]]
                /\ UNCHANGED <<srvVars, cliVars, use_reliability, now, net, inbox, budget,
                               nextId, sent, handled, last>>]_vars

-----------------------------------------------------------------------------
(* Properties *)

AllFacilities == {FacilityNames[i] : i \in 1..Len(FacilityNames)}

\* the datagram the server took off the network in this step
ServerTook(d) == d \in DOMAIN net /\ net'[d].flying < net[d].flying

\* the (id, start, end) triples a facility holds
Held(bookings) == {bookings[i] : i \in 1..Len(bookings)}

C2_BookingWellFormed ==
    /\ \A f \in AllFacilities :
           \A i \in 1..Len(facilities[f]) :
               LET b == facilities[f][i].booking
               IN  TimeLt(b.start_time, b.end_time) /\ b.start_time.day = b.end_time.day
    /\ (last.kind = "handle" /\ last.type = "Book"
            /\ ~(TimeLt(last.req.start_time, last.req.end_time)
                    /\ last.req.start_time.day = last.req.end_time.day))
           => ~last.ok

\* the first response the server sent for a request_id, as bytes
FirstResponseBytes(id) ==
    LET idx == {i \in 1..Len(sent) : sent[i].kind = "response" /\ sent[i].bytes[1] = id}
    IN  sent[CHOOSE i \in idx : \A j \in idx : i <= j].bytes

IsChange(type) == type \in {"Book", "Offset", "Extend", "Cancel"}

\* the datagrams the server sends in this step
NewlySent == {i \in (Len(sent) + 1)..Len(sent') : TRUE}

C7_NoNotificationAfterExpiry ==
    [][ handled' # handled =>
            /\ \A i \in NewlySent : sent'[i].kind = "notify" => sent'[i].expiry > now
            /\ (last'.ok /\ IsChange(last'.type)) =>
                   \A j \in 1..Len(monitoring_addresses') : monitoring_addresses'[j].expiry > now ]_vars

\* a subscription was registered, its time ran out, and the pass after a
\* later successful change removed it without notifying anyone
C7_Witness ==
    /\ \E k \in 1..Len(handled) :
           /\ handled[k].req.type = "Monitor" /\ handled[k].ok
           /\ handled[k].req.facility_name = "MR1"
    /\ last.kind = "handle" /\ last.ok /\ IsChange(last.type)
    /\ monitoring_addresses = <<>>
    /\ \A i \in 1..Len(sent) : sent[i].kind # "notify"

\* the facility a change request is about, before the change
ChangedFacility(req, facs) ==
    IF req.type = "Book" THEN req.facility_name
    ELSE CHOOSE f \in AllFacilities : \E b \in Held(facs[f]) : b.id = req.booking_id

ChangedDay(req, facs) ==
    IF req.type = "Book" THEN req.start_time.day
    ELSE LET f == ChangedFacility(req, facs)
         IN  (CHOOSE b \in Held(facs[f]) : b.id = req.booking_id).booking.start_time.day

C9_NotificationsBeforeResponse ==
    \A i, j \in 1..Len(sent) :
        (/\ sent[i].kind = "notify" /\ sent[j].kind = "response"
         /\ sent[i].op = sent[j].op)
        => i < j

\* a change was answered after a notification of it had been sent
C9_Witness ==
    \E i, j \in 1..Len(sent) :
        /\ sent[i].kind = "notify" /\ sent[j].kind = "response"
        /\ sent[i].op = sent[j].op /\ sent[j].bytes[2] = FALSE

\* the responses and notifications the server sent, and logged, after the
\* i-th handled request and before the j-th
SentBetween(i, j) ==
    {n \in 1..Len(sent) : sent[n].kind \in {"response", "notify"}
                          /\ i < sent[n].op /\ sent[n].op < j}

\* C4 as the spec states it: with reliability on at both sides no
\* request_id is handled twice, whatever the order of drops, duplicates and
\* deliveries.
C4_HandledAtMostOnce ==
    (use_reliability.server /\ use_reliability.client) =>
        \A i, j \in 1..Len(handled) : i # j => handled[i].id # handled[j].id

\* C4, amended: with reliability on at both sides a request_id is handled a
\* second time only after the server has sent MAX_LOG_LENGTH or more
\* responses and notifications since it first answered that request; until
\* then one Book request stores at most one booking.
C4_HandledOnceWhileLogged ==
    (use_reliability.server /\ use_reliability.client) =>
        \A i, j \in 1..Len(handled) :
            (i < j /\ handled[i].id = handled[j].id)
            => Cardinality(SentBetween(i, j)) >= MAX_LOG_LENGTH

\* the client at "A" transmitted its request twice, the server handled one
\* copy and answered the other from its log
C4_Witness ==
    /\ use_reliability.server /\ use_reliability.client
    /\ last.kind = "replay" /\ last.peer = "A"
    /\ Cardinality({k \in 1..Len(handled) : handled[k].id = last.id}) = 1

\* C5 as the spec states it: with reliability on at the client, a send that
\* has started returns, with a response or with the timeout error.
C5_SendReturns ==
    (use_reliability.client /\ cpc \in {"attempt", "receive"}) ~> (cpc \in {"idle", "monitor"})

\* the Strings and Vecs of a value, as the byte counts their encodings carry
PayloadLens(v) ==
    IF v.kind = "RawResponse" THEN {Len(v.value.data)}
    ELSE LET rt == v.value.request_type
         IN  (IF rt.type \in {"Availability", "Book", "Monitor"}
              THEN {Len(rt.facility_name)} ELSE {})
             \cup (IF rt.type = "Availability" THEN {Len(rt.days)} ELSE {})

\* the discriminant the spec gives a request type
SpecDiscriminant(type) ==
    CASE type = "Availability" -> 0
      [] type = "Book" -> 1
      [] type = "Offset" -> 2
      [] type = "Monitor" -> 3
      [] type = "Cancel" -> 4
      [] type = "Extend" -> 5

\* C10 as the spec states it: decoding the bytes of any RawRequest or
\* RawResponse gives back the value that was encoded, and the byte after a
\* request's id is the discriminant 0 Availability, 1 Book, 2 Offset,
\* 3 Monitor, 4 Cancel, 5 Extend.
C10_RoundTrip ==
    codec.stage = "decoded" =>
        /\ codec.result.ok
        /\ codec.result.val = codec.value
        /\ codec.kind = "RawRequest" =>
               codec.bytes[17] = SpecDiscriminant(codec.value.request_type.type)

\* C10, amended: the round trip holds for every RawRequest and RawResponse
\* whose strings and lists are shorter than 65536 bytes, and it uses up the
\* bytes; the discriminants are as the spec gives them.
C10_RoundTripBelowU16 ==
    (codec.stage = "decoded" /\ \A n \in PayloadLens(codec) : n < U16Range) =>
        /\ codec.result.ok
        /\ codec.result.val = codec.value
        /\ codec.result.rest = <<>>
        /\ codec.kind = "RawRequest" =>
               codec.bytes[17] = SpecDiscriminant(codec.value.request_type.type)

\* an Availability request with a name and three days was encoded and decoded
C10_Witness ==
    /\ codec.stage = "decoded"
    /\ codec.kind = "RawRequest"
    /\ codec.value.request_type.type = "Availability"
    /\ Len(codec.value.request_type.facility_name) = 256
    /\ Len(codec.value.request_type.days) = 3
    /\ codec.result.ok

-----------------------------------------------------------------------------
(* Offset, Extend, Book and Availability on one facility *)

\* a time as the minute of the week it names, and back
MinuteOfWeek(t) == (t.day * 24 + t.hour) * 60 + t.minute
TimeOfMinute(n) == Time((n \div 1440) % 7, (n \div 60) % 24, n % 60)

\* the time hours:minutes after (before, when negative) t on the cyclic week
Shifted(t, hours, minutes, negative) ==
    TimeOfMinute((MinuteOfWeek(t) + (IF negative THEN 10080 - (60 * hours + minutes)
                                     ELSE 60 * hours + minutes)) % 10080)

\* the step is the server handling a request of the given type
Handles(type) == handled' # handled /\ last'.type = type

\* the bookings of the one facility that holds booking id, before the step
HolderOf(id) == CHOOSE f \in AllFacilities : HasId(facilities[f], id)
StoredBefore(id) == GetBookingDetails(facilities[HolderOf(id)], id).booking
StoredAfter(id) == GetBookingDetails(facilities'[HolderOf(id)], id).booking

\* C11: an Offset by (hours, minutes, negative) that is answered with success
\* replaces the booking by one with both ends shifted by exactly that much,
\* under the same id
C11_OffsetShiftsBothEnds ==
    [][(/\ Handles("Offset")
        /\ last'.ok
        /\ \E f \in AllFacilities : HasId(facilities[f], last'.req.booking_id))
       => LET r == last'.req
              id == r.booking_id
          IN  /\ HasId(facilities'[HolderOf(id)], id)
              /\ StoredAfter(id) =
                     Booking(Shifted(StoredBefore(id).start_time, r.offset_hours,
                                     r.offset_min, r.negative),
                             Shifted(StoredBefore(id).end_time, r.offset_hours,
                                     r.offset_min, r.negative))]_vars

\* an Offset of a stored booking by so much that the shifted booking starts
\* on one day and ends on another
OffsetLeavesTheDay(r) ==
    /\ \E f \in AllFacilities : HasId(facilities[f], r.booking_id)
    /\ Shifted(StoredBefore(r.booking_id).start_time, r.offset_hours, r.offset_min,
               r.negative).day
       # Shifted(StoredBefore(r.booking_id).end_time, r.offset_hours, r.offset_min,
                 r.negative).day

\* C12: an Offset whose shifted booking would not lie within a single day is
\* answered with an error response, and the booking keeps its times
C12_OffsetAcrossDaysFails ==
    [][(Handles("Offset") /\ OffsetLeavesTheDay(last'.req))
       => /\ ~last'.ok
          /\ sent'[Len(sent')].bytes[2]
          /\ HasId(facilities'[HolderOf(last'.req.booking_id)], last'.req.booking_id)
          /\ StoredAfter(last'.req.booking_id) = StoredBefore(last'.req.booking_id)]_vars

\* the bookings a facility holds besides booking id
Others(bookings, id) == {e \in Held(bookings) : e.id # id}

\* two bookings share a minute, the end points included
Intersect(a, b) ==
    \E x \in {MinuteOfWeek(a.start_time), MinuteOfWeek(b.start_time)} :
        /\ MinuteOfWeek(a.start_time) <= x /\ x <= MinuteOfWeek(a.end_time)
        /\ MinuteOfWeek(b.start_time) <= x /\ x <= MinuteOfWeek(b.end_time)

\* C13: an Extend of a stored booking by (hours, minutes) moves only its end,
\* forward by exactly that much, and keeps its start and its id; when the new
\* end is on another day than the start, or the extended booking shares a
\* minute with another booking of the facility, the response is an error and
\* the bookings are the ones before the request
C13_ExtendMovesOnlyTheEnd ==
    [][(/\ Handles("Extend")
        /\ \E f \in AllFacilities : HasId(facilities[f], last'.req.booking_id))
       => LET r == last'.req
              id == r.booking_id
              f == HolderOf(id)
              extended == Booking(StoredBefore(id).start_time,
                                  Shifted(StoredBefore(id).end_time, r.extend_hours,
                                          r.extend_min, FALSE))
              refused == \/ extended.end_time.day # extended.start_time.day
                         \/ \E e \in Others(facilities[f], id) : Intersect(e.booking, extended)
          IN  /\ last'.ok = ~refused
              /\ sent'[Len(sent')].bytes[2] = refused
              /\ \A g \in AllFacilities \ {f} : facilities'[g] = facilities[g]
              /\ Others(facilities'[f], id) = Others(facilities[f], id)
              /\ Held(facilities'[f]) \ Others(facilities'[f], id)
                     = {Entry(id, IF refused THEN StoredBefore(id) ELSE extended)}]_vars

\* booking 1, Monday 09:00-10:00, was extended by 30 minutes to end at 10:30,
\* and a later Extend by 14 hours was refused and left it there
C13_Witness ==
    /\ \E i, j \in 1..Len(handled) :
          /\ i < j
          /\ handled[i].req = Extend(1, 0, 30) /\ handled[i].ok
          /\ handled[j].req = Extend(1, 14, 0) /\ ~handled[j].ok
    /\ Held(facilities["MR1"]) = {Entry(1, Booking(T0900, Time(Monday, 10, 30)))}

\* C14: Booking::overlaps is true exactly when the two closed intervals share
\* a minute, whichever of the two it is called on; a Book that shares a minute
\* with a stored booking of the facility, were it only the minute at which
\* that booking ends or starts, is answered with an error and leaves the
\* bookings unchanged, and any other well-formed Book is stored
C14_OverlapsIsClosedIntersection ==
    [][(/\ Handles("Book")
        /\ IsFacility(last'.req.facility_name)
        /\ MinuteOfWeek(last'.req.start_time) < MinuteOfWeek(last'.req.end_time))
       => LET new == Booking(last'.req.start_time, last'.req.end_time)
              stored == Held(facilities[last'.req.facility_name])
              refused == \E e \in stored : Intersect(e.booking, new)
          IN  /\ \A e \in stored :
                    /\ Overlaps(e.booking, new) = Intersect(e.booking, new)
                    /\ Overlaps(new, e.booking) = Intersect(e.booking, new)
              /\ last'.ok = ~refused
              /\ sent'[Len(sent')].bytes[2] = refused
              /\ refused => facilities' = facilities
              /\ ~refused =>
                    Held(facilities'[last'.req.facility_name])
                        = stored \cup {Entry(nextId.booking, new)}]_vars

\* Monday 10:00-11:00 is booked; the Book of Monday 09:00-10:00, which ends
\* in the minute the stored booking starts, was refused and changed nothing
C14_Witness ==
    /\ Len(handled) = 2
    /\ handled[1].req = Book("MR1", T1000, T1100) /\ handled[1].ok
    /\ handled[2].req = Book("MR1", T0900, T1000) /\ ~handled[2].ok
    /\ Held(facilities["MR1"]) = {Entry(1, Booking(T1000, T1100))}

\* the bookings of a facility that touch the day
BookedOn(bookings, day) ==
    {e.booking : e \in {x \in Held(bookings) :
                           x.booking.start_time.day = day \/ x.booking.end_time.day = day}}

Elements(seq) == {seq[i] : i \in 1..Len(seq)}

Covers(b, x) == MinuteOfWeek(b.start_time) <= x /\ x <= MinuteOfWeek(b.end_time)

\* free intervals and bookings of the day cover it from 00:00 to 23:59: the
\* first minute of the day is covered, and so is the minute after the end of
\* each of them that ends before 23:59
CoversTheDay(intervals, day) ==
    \A x \in {MinuteOfWeek(Time(day, 0, 0))}
             \cup {MinuteOfWeek(b.end_time) + 1 : b \in intervals} :
        x <= MinuteOfWeek(Time(day, 23, 59)) => \E b \in intervals : Covers(b, x)

AvailabilitiesPartition(bookings, day) ==
    LET free == GetAvailabilities(bookings, day)
        booked == BookedOn(bookings, day)
    IN  /\ \A i \in 1..Len(free) :
              /\ free[i].start_time.day = day /\ free[i].end_time.day = day
              /\ TimeLt(free[i].start_time, free[i].end_time)
              /\ \A j \in 1..Len(free) : i # j => ~Intersect(free[i], free[j])
              /\ \A b \in booked :
                    \/ TimeLe(free[i].end_time, b.start_time)
                    \/ TimeLe(b.end_time, free[i].start_time)
        /\ CoversTheDay(Elements(free) \cup booked, day)

\* C15: for every facility whose bookings each lie within one day, and every
\* day, the free intervals listed for the day are pairwise disjoint, run at
\* most up to the end points of the day's bookings, and together with those
\* bookings cover the day from 00:00 to 23:59; with only Monday 09:00-10:00
\* booked they are Monday 00:00-09:00 and Monday 10:00-23:59
C15_AvailabilitiesPartitionTheDay ==
    \A f \in AllFacilities :
        (\A e \in Held(facilities[f]) : e.booking.start_time.day = e.booking.end_time.day)
        => /\ \A day \in Monday..Sunday : AvailabilitiesPartition(facilities[f], day)
           /\ {e.booking : e \in Held(facilities[f])} = {Booking(T0900, T1000)}
                  => GetAvailabilities(facilities[f], Monday)
                         = <<Booking(Time(Monday, 0, 0), T0900),
                             Booking(T1000, Time(Monday, 23, 59))>>

\* the server answered an Availability request for Monday on MR1 while
\* Monday 11:00-12:00 and, booked after it, Monday 09:00-10:00 were stored
C15_Witness ==
    /\ last.kind = "handle" /\ last.type = "Availability" /\ last.ok
    /\ facilities["MR1"] = <<Entry(1, Booking(T1100, Time(Monday, 12, 0))), Entry(2, Booking(T0900, T1000))>>
    /\ sent[Len(sent)].bytes[3].avail
           = << <<Booking(Time(Monday, 0, 0), T0900), Booking(T1000, T1100),
                  Booking(Time(Monday, 12, 0), Time(Monday, 23, 59))>> >>

-----------------------------------------------------------------------------
(* One response per dispatched request *)

\* the datagrams the server sent while handling the op-th dispatched request
SentFor(op) == {n \in 1..Len(sent) : sent[n].op = op}

\* C16: every request the dispatcher handles produces exactly one response
\* datagram; it goes to the peer the request came from, carries the
\* request's request_id, which no other datagram sent for the request
\* carries, and its is_error is true exactly when the operation failed
C16_OneResponsePerRequest ==
    \A op \in 1..Len(handled) :
        /\ Cardinality({n \in SentFor(op) : sent[n].kind = "response"}) = 1
        /\ Cardinality({n \in SentFor(op) : sent[n].bytes[1] = handled[op].id}) = 1
        /\ \A n \in SentFor(op) :
              sent[n].kind = "response" =>
                  /\ sent[n].to = handled[op].from
                  /\ sent[n].bytes[1] = handled[op].id
                  /\ sent[n].bytes[2] = ~handled[op].ok
                  /\ \A k \in SentFor(op) : k <= n

\* two requests were dispatched, one succeeded and one failed, and each was
\* answered with its one response, the failed one with is_error
C16_Witness ==
    \E i, j \in 1..Len(handled) :
        /\ handled[i].ok /\ ~handled[j].ok
        /\ \E n \in SentFor(i) :
              sent[n].kind = "response" /\ ~sent[n].bytes[2] /\ sent[n].to = handled[i].from
        /\ \E n \in SentFor(j) :
              sent[n].kind = "response" /\ sent[n].bytes[2] /\ sent[n].to = handled[j].from

-----------------------------------------------------------------------------
(* Datagrams that do not decode *)

\* the server took the datagram off its socket in this step
Receives == codec.stage = "received" /\ codec'.stage # "received"

\* the bytes of the datagram are not the encoding of a RawRequest: a
\* discriminant above 5, a Day above 6, a string that is not UTF-8, or fewer
\* bytes than a field or a length prefix asks for
FailsToDecode(bytes, endian) == ~RawRequestFromBytes(bytes, endian).ok

\* C17: a datagram that fails to decode is not surfaced to the dispatcher,
\* is not answered, and leaves facilities, subscriptions and response log as
\* they were; the server goes on receiving
C17_UndecodableIsIgnored ==
    [][(Receives /\ FailsToDecode(codec.bytes, codec.endian))
       => /\ handled' = handled
          /\ sent' = sent
          /\ facilities' = facilities
          /\ monitoring_addresses' = monitoring_addresses
          /\ log' = log]_vars

InRange(t) == t.hour <= 23 /\ t.minute <= 59

\* C18: a request with an Hour byte of 24 or more, or a Minute byte of 60 or
\* more, fails to decode, so that no hour outside 0..23 and no minute outside
\* 0..59 reaches the dispatcher or a stored booking
C18_HourAndMinuteInRange ==
    /\ \A i \in 1..Len(handled) :
          /\ handled[i].req.type = "Book"
                => InRange(handled[i].req.start_time) /\ InRange(handled[i].req.end_time)
          /\ handled[i].req.type = "Offset"
                => handled[i].req.offset_hours <= 23 /\ handled[i].req.offset_min <= 59
          /\ handled[i].req.type = "Extend"
                => handled[i].req.extend_hours <= 23 /\ handled[i].req.extend_min <= 59
    /\ \A f \in AllFacilities : \A e \in Held(facilities[f]) :
          InRange(e.booking.start_time) /\ InRange(e.booking.end_time)

-----------------------------------------------------------------------------
(* The response log *)

\* the entries for the responses and notifications the server sends in this
\* step, in the order it sends them
RECURSIVE EntriesOf(_)
EntriesOf(wire) ==
    IF wire = <<>> THEN <<>>
    ELSE (IF Head(wire).kind \in {"response", "notify"}
          THEN <<[id |-> Head(wire).bytes[1], bytes |-> Head(wire).bytes]>> ELSE <<>>)
         \o EntriesOf(Tail(wire))

\* the last n elements of a sequence, all of it when it has fewer
Newest(seq, n) == IF Len(seq) <= n THEN seq ELSE SubSeq(seq, Len(seq) - n + 1, Len(seq))

\* C19: the log never holds more than 50 entries; what the server sends is
\* appended to it in the order sent, and each insert into a full log evicts
\* exactly the oldest entry, so that the log is the newest 50 of all entries
\* in insertion order; check(id) finds an id exactly while an entry for it is
\* in the log, and returns the bytes stored with it
C19_LogKeepsNewestFifty ==
    /\ [](/\ Len(log) <= 50
          /\ \A i \in 1..Len(log) :
                LogCheck(log, log[i].id) = [found |-> TRUE, bytes |-> log[i].bytes]
          /\ \A i \in 1..Len(handled) :
                LogCheck(log, handled[i].id).found
                    = (\E k \in 1..Len(log) : log[k].id = handled[i].id))
    /\ [][log' = Newest(log \o EntriesOf(SubSeq(sent', Len(sent) + 1, Len(sent'))), 50)]_vars

\* 51 responses were sent: the log is full, the entry of the first response
\* is gone and check no longer finds its id, the 50 later ones are there in
\* the order they were sent
C19_Witness ==
    /\ Len(sent) > 50
    /\ \A n \in 1..51 : sent[n].kind = "response"
    /\ Len(log) = 50
    /\ ~LogCheck(log, sent[1].bytes[1]).found
    /\ \A k \in 1..50 : log[k] = [id |-> sent[k + 1].bytes[1], bytes |-> sent[k + 1].bytes]

-----------------------------------------------------------------------------
(* Time::offset *)

\* C20: for a valid Time t and a valid offset (hours in 0..23, minutes in
\* 0..59), t.offset(hours, minutes, false) is the Time 60 * hours + minutes
\* minutes after t on the cyclic week, with its hour in 0..23 and its minute
\* in 0..59
C20_PositiveOffsetAddsMinutes ==
    (codec.stage = "offset" /\ ~codec.negative)
    => /\ codec.result.day \in Monday..Sunday
       /\ codec.result.hour \in 0..23
       /\ codec.result.minute \in 0..59
       /\ MinuteOfWeek(codec.result)
              = (MinuteOfWeek(codec.t) + 60 * codec.hours + codec.minutes) % 10080

\* Sunday 23:30 offset by +23h59: the minutes carry into the hour, the hours
\* into the day, and the day wraps to Monday, 23:29
C20_Witness ==
    /\ codec.stage = "offset" /\ ~codec.negative
    /\ codec.t = Time(Sunday, 23, 30) /\ codec.hours = 23 /\ codec.minutes = 59
    /\ codec.result = Time(Monday, 23, 29)

\* C21: for a valid Time t and a valid offset (hours in 0..23, minutes in
\* 0..59), t.offset(hours, minutes, true) is the Time 60 * hours + minutes
\* minutes before t on the cyclic week: a minute below 0 borrows an hour, an
\* hour below 0, whether from the hours or from the minute borrow, borrows a
\* day, Monday wrapping to Sunday
C21_NegativeOffsetSubtractsMinutes ==
    (codec.stage = "offset" /\ codec.negative)
    => /\ codec.result.day \in Monday..Sunday
       /\ codec.result.hour \in 0..23
       /\ codec.result.minute \in 0..59
       /\ MinuteOfWeek(codec.result)
              = (MinuteOfWeek(codec.t) + 10080 - (60 * codec.hours + codec.minutes)) % 10080

-----------------------------------------------------------------------------
(* The client's send *)

\* the receive of the client's attempt can only time out: no datagram waits
\* at its socket and none is on its way to the server
ReceiveTimesOut ==
    /\ use_reliability.client
    /\ cpc = "receive"
    /\ inbox = <<>>
    /\ \A d \in DOMAIN net : ~InFlight(d)

\* C22: with reliability on at the client, when the receive of attempt k,
\* k < MAX_RETRIES - 1, times out, the client goes on to attempt k + 1 and
\* transmits the request again
C22_TimeoutRetransmits ==
    \A k \in 0..(MAX_RETRIES - 2) :
        (ReceiveTimesOut /\ retry = k) ~> (cpc = "attempt" /\ retry = k + 1)

\* the client transmits its request in this step: an attempt of send ends in
\* the duplicate roll or goes on to its receive
Transmits == cpc = "attempt" /\ (cpc' # "attempt" \/ retry' # retry)

\* C23: within one call of send with reliability on, the request is
\* transmitted as attempt 0 .. MAX_RETRIES - 1 and each attempt at most once,
\* so at most MAX_RETRIES times; an attempt whose roll is below the duplicate
\* rate receives nothing and is followed by the next attempt; once an attempt
\* has gone on to receive there is no further attempt; and send returns the
\* timeout error only from the duplicate roll of the last attempt, that is
\* when every attempt took that path, without having received anything
C23_AtMostMaxRetriesTransmissions ==
    [][/\ Transmits =>
             /\ use_reliability.client
             /\ retry <= MAX_RETRIES - 1
             /\ inbox' = inbox
             /\ \/ cpc' = "receive" /\ retry' = retry
                \/ cpc' = "attempt" /\ retry' = retry + 1 /\ retry + 1 <= MAX_RETRIES - 1
                \/ /\ cpc' \in {"idle", "monitor"}
                   /\ retry = MAX_RETRIES - 1
                   /\ cret'.kind = "timeout"
       /\ (cpc # "attempt" /\ cpc' = "attempt") => (cpc = "idle" /\ retry' = 0)
       /\ (cret'.kind = "timeout" /\ cret.kind # "timeout") => Transmits]_vars

\* send has returned the timeout error
C23_Witness ==
    /\ use_reliability.client
    /\ cpc \in {"idle", "monitor"}
    /\ cret.kind = "timeout"
    /\ creq # NoRequest

\* the client takes a datagram from its socket in this step
Takes == inbox # <<>> /\ inbox' = Tail(inbox)

\* C24: with reliability on at the client, send returns a response only when
\* it has received one that carries the request_id of its request, and
\* returns that one; a received datagram with another request_id is
\* discarded, and the client goes on receiving in the same attempt, without
\* transmitting again
C24_OnlyMatchingResponseReturned ==
    [][/\ (use_reliability.client /\ cret' # cret /\ cret'.kind = "ok")
          => /\ Takes
             /\ Head(inbox)[1] = creq.request_id
             /\ cret'.response = ResponseFromBytes(Head(inbox))
       /\ (use_reliability.client /\ cpc = "receive" /\ Takes)
          => IF Head(inbox)[1] = creq.request_id
             THEN cret'.kind = "ok" /\ cpc' \in {"idle", "monitor"}
             ELSE /\ cpc' = "receive" /\ retry' = retry
                  /\ cret' = cret /\ creq' = creq /\ net' = net]_vars

\* the response to the first request was sent to the client twice; the
\* second one reached it during the receive of its second request, was
\* taken from the socket and discarded, and the client is still receiving
C24_Witness ==
    /\ use_reliability.client
    /\ cpc = "receive" /\ creq.request_id = 102 /\ cret.kind = "none"
    /\ Cardinality({n \in 1..Len(sent) : sent[n].to = "A" /\ sent[n].bytes[1] = 101}) = 2
    /\ \A n \in 1..Len(sent) : sent[n].bytes[1] # 102
    /\ inbox = <<>>

-----------------------------------------------------------------------------
(* The server's drop injection and its reliability switch *)

\* the server discards the datagram it took off the network in this step
Drops(d) == ServerTook(d) /\ last'.kind = "drop" /\ handled' = handled

\* C25: a datagram the server's drop injection discards brings no reply, no
\* insert into the response log and no use of an entry of it, and no change
\* of facilities or subscriptions, also when the log holds a response for
\* its request_id
C25_DropHasNoEffect ==
    [][\A d \in DOMAIN net :
          (Drops(d) /\ last'.id = d.req.request_id /\ last'.peer = d.from)
          => /\ sent' = sent
             /\ inbox' = inbox
             /\ log' = log
             /\ facilities' = facilities
             /\ monitoring_addresses' = monitoring_addresses]_vars

\* the server, reliability on, has just dropped a copy of a request whose
\* response is in its log, and has sent that response once, for the copy it
\* handled
C25_Witness ==
    /\ use_reliability.server
    /\ last.kind = "drop"
    /\ LogCheck(log, last.id).found
    /\ Cardinality({n \in 1..Len(sent) : sent[n].bytes[1] = last.id}) = 1
    /\ \A d \in DOMAIN net : ~InFlight(d)

\* C26: with the server's reliability off the response log stays as it is,
\* empty, no logged response is sent, and every datagram the server takes
\* and does not drop is handed to the handler and executed, a repeated
\* request_id included
C26_UnreliableServerExecutesEveryDatagram ==
    [][~use_reliability.server
       => /\ log = <<>> /\ log' = log
          /\ last'.kind # "replay"
          /\ \A n \in 1..Len(sent') : sent'[n].kind # "replay"
          /\ \A d \in DOMAIN net :
                (ServerTook(d) /\ ~Drops(d))
                => /\ last'.kind = "handle"
                   /\ Len(handled') = Len(handled) + 1
                   /\ handled'[Len(handled')].id = d.req.request_id
                   /\ handled'[Len(handled')].from = d.from
                   /\ handled'[Len(handled')].req = d.req.request_type]_vars

\* reliability off: both copies of one Book request were executed, the first
\* made the booking and the second was refused, and each got its own response
C26_Witness ==
    /\ ~use_reliability.server
    /\ Len(handled) = 2
    /\ handled[1].id = handled[2].id /\ handled[1].from = handled[2].from
    /\ handled[1].req.type = "Book" /\ handled[1].ok /\ ~handled[2].ok
    /\ Cardinality({n \in 1..Len(sent) :
                       sent[n].kind = "response" /\ sent[n].bytes[1] = handled[1].id}) = 2

-----------------------------------------------------------------------------
(* Requests that name no facility or no booking *)

\* the request names a facility outside MR1..MR5, or a booking id that no
\* facility holds
NamesNothing(rt) ==
    \/ /\ rt.type \in {"Book", "Availability", "Monitor"}
       /\ rt.facility_name \notin AllFacilities
    \/ /\ rt.type \in {"Offset", "Extend", "Cancel"}
       /\ \A f \in AllFacilities :
             \A i \in 1..Len(facilities[f]) : facilities[f][i].id # rt.booking_id

\* C27: a Book, Availability or Monitor request for a facility outside
\* MR1..MR5, and an Offset, Extend or Cancel request for a booking id that no
\* facility holds, is answered with is_error = true and with nothing else: no
\* notification is sent, and facilities and subscriptions stay as they were
C27_UnknownNameIsAnError ==
    [][\A d \in DOMAIN net :
          (ServerTook(d) /\ last'.kind = "handle" /\ NamesNothing(d.req.request_type))
          => /\ Len(sent') = Len(sent) + 1
             /\ SubSeq(sent', 1, Len(sent)) = sent
             /\ sent'[Len(sent')].kind = "response"
             /\ sent'[Len(sent')].to = d.from
             /\ ResponseFromBytes(sent'[Len(sent')].bytes).request_id = d.req.request_id
             /\ ResponseFromBytes(sent'[Len(sent')].bytes).is_error
             /\ facilities' = facilities
             /\ monitoring_addresses' = monitoring_addresses]_vars

\* with a subscription to MR1 and a booking in MR1, whose making was notified,
\* a Book for facility "MRX" has just been refused
C27_Witness ==
    /\ Len(monitoring_addresses) = 1
    /\ Len(facilities["MR1"]) = 1
    /\ last.kind = "handle" /\ last.type = "Book" /\ last.req.facility_name = "MRX"
    /\ ~last.ok
    /\ sent # <<>> /\ ResponseFromBytes(sent[Len(sent)].bytes).is_error
    /\ Cardinality({n \in 1..Len(sent) : sent[n].kind = "notify"}) = 1

-----------------------------------------------------------------------------
(* After a Cancel *)

\* the handled requests that cancelled a booking
Cancels == {i \in 1..Len(handled) : handled[i].req.type = "Cancel" /\ handled[i].ok}

\* a cancelled booking id is held by no facility, and every Offset, Extend or
\* Cancel for it that was handled later was refused
CancelledStaysGone ==
    \A i \in Cancels :
        /\ \A f \in AllFacilities :
              \A n \in 1..Len(facilities[f]) : facilities[f][n].id # handled[i].req.booking_id
        /\ \A j \in (i + 1)..Len(handled) :
              (/\ handled[j].req.type \in {"Offset", "Extend", "Cancel"}
               /\ handled[j].req.booking_id = handled[i].req.booking_id)
              => ~handled[j].ok

\* C28: once a Cancel of a booking has succeeded, no facility holds the
\* booking, every later Offset, Extend or Cancel for its id is answered with
\* an error, and a Book for an interval of a facility that shares no minute
\* with the bookings the facility still holds (the cancelled interval, when
\* nothing else took it) is accepted and stored under a new id
C28_CancelledBookingIsGone ==
    [][/\ CancelledStaysGone'
       /\ (/\ Handles("Book") /\ Cancels # {}
           /\ last'.req.facility_name \in AllFacilities
           /\ MinuteOfWeek(last'.req.start_time) < MinuteOfWeek(last'.req.end_time)
           /\ \A e \in Held(facilities[last'.req.facility_name]) :
                 ~Intersect(e.booking, Booking(last'.req.start_time, last'.req.end_time)))
          => /\ last'.ok
             /\ \A i \in Cancels : handled[i].req.booking_id # nextId.booking
             /\ Held(facilities'[last'.req.facility_name])
                    = Held(facilities[last'.req.facility_name])
                      \cup {Entry(nextId.booking,
                                  Booking(last'.req.start_time, last'.req.end_time))}]_vars

\* a booking was made and cancelled, and the same Book request, sent again,
\* was accepted: the facility holds the interval under the second id
C28_Witness ==
    /\ Len(handled) = 3
    /\ handled[1].req.type = "Book" /\ handled[1].ok
    /\ handled[2].req = Cancel(1) /\ handled[2].ok
    /\ handled[3].req = handled[1].req /\ handled[3].ok
    /\ handled[3].id # handled[1].id
    /\ Held(facilities["MR1"])
           = {Entry(2, Booking(handled[1].req.start_time, handled[1].req.end_time))}

-----------------------------------------------------------------------------
(* Who is notified, and when *)

\* the notifications among the datagrams sent in this step
NewNotifications == {i \in NewlySent : sent'[i].kind = "notify"}

\* C29: the server sends a notification only while it handles a Book,
\* Offset, Extend or Cancel that succeeds, and each one goes to the address
\* of a subscription it held for the facility that was changed, at most one
\* per such subscription; no other step, a failed request and an
\* Availability or Monitor request included, sends one
C29_NotificationsOnlyForTheChangedFacility ==
    [][NewNotifications # {}
       => /\ handled' # handled /\ last'.ok /\ IsChange(last'.type)
          /\ \A i \in NewNotifications :
                \E k \in 1..Len(monitoring_addresses) :
                    /\ monitoring_addresses[k].addr = sent'[i].to
                    /\ monitoring_addresses[k].expiry = sent'[i].expiry
                    /\ monitoring_addresses[k].facility_name
                           = ChangedFacility(last'.req, facilities)
          /\ Cardinality(NewNotifications)
                 <= Cardinality({k \in 1..Len(monitoring_addresses) :
                                    monitoring_addresses[k].facility_name
                                        = ChangedFacility(last'.req, facilities)})]_vars

\* with a subscription to MR1 and one to MR2, a Book in MR1 has just
\* succeeded and one notification was sent
C29_Witness ==
    /\ Len(monitoring_addresses) = 2
    /\ {monitoring_addresses[k].facility_name : k \in 1..2} = {"MR1", "MR2"}
    /\ last.kind = "handle" /\ last.ok /\ last.type = "Book"
    /\ Cardinality({i \in 1..Len(sent) : sent[i].kind = "notify"}) = 1

-----------------------------------------------------------------------------
(* Datagrams that end early *)

\* the bytes are the beginning of the encoding of a request, and end before
\* the encoding does
CutShort(bytes, endian) ==
    \E rt \in WireRequests :
        LET full == RawRequestToBytes(RawRequest(UuidOf(101), rt), endian)
        IN  /\ Len(bytes) < Len(full)
            /\ bytes = SubSeq(full, 1, Len(bytes))

\* C30: a datagram that holds only the beginning of a RawRequest encoding,
\* the 16 bytes of the request_id for one, is a decode error for the server:
\* receive fails, the handler sees no request and no datagram is sent
C30_ShortDatagramIsADecodeError ==
    [][(Receives /\ CutShort(codec.bytes, codec.endian))
       => /\ codec'.stage = "failed"
          /\ handled' = handled
          /\ sent' = sent]_vars

-----------------------------------------------------------------------------
(* The window of the response log *)

\* C31: with the server's reliability on, a request_id is executed a second
\* time only after the server has executed at least 50 other requests since
\* it executed it first, whatever the number of notifications sent in
\* between; until then its copies are answered from the log
C31_LoggedForFiftyRequests ==
    use_reliability.server
    => \A i, j \in 1..Len(handled) :
          (i < j /\ handled[i].id = handled[j].id /\ handled[i].from = handled[j].from)
          => j - i - 1 >= 50

\* C32: the response log holds at most one entry for a request_id, also
\* after a state change of which several subscribers were notified
C32_OneLogEntryPerRequestId ==
    \A i, j \in 1..Len(log) : log[i].id = log[j].id => i = j

-----------------------------------------------------------------------------
(* One notification for each subscriber *)

\* the addresses that hold an unexpired subscription to the facility
SubscribersOf(facility_name) ==
    {monitoring_addresses[k].addr :
        k \in {n \in 1..Len(monitoring_addresses) :
                  /\ monitoring_addresses[n].facility_name = facility_name
                  /\ monitoring_addresses[n].expiry > now}}

\* C33: a Book, Offset, Extend or Cancel that succeeds sends each address
\* that holds an unexpired subscription to the changed facility exactly one
\* notification, however many Monitor requests of the address were executed
C33_OneNotificationPerSubscriber ==
    [][(handled' # handled /\ last'.ok /\ IsChange(last'.type))
       => \A a \in SubscribersOf(ChangedFacility(last'.req, facilities)) :
             Cardinality({i \in NewNotifications : sent'[i].to = a}) = 1]_vars

-----------------------------------------------------------------------------
(* send with the client's reliability off *)

\* C34: with the client's reliability off, the response that send returns
\* carries the request_id of the request it has just sent, never the reply
\* to an earlier request or a notification that was waiting in the socket
C34_UnreliableSendReturnsOwnResponse ==
    (~use_reliability.client /\ cret.kind = "ok")
    => cret.response.request_id = creq.request_id

C36_OffsetStaysInRange ==
    codec.stage = "decoded offset"
    => /\ codec.outcome = "returned"
       /\ codec.result.hour \in 0..23
       /\ codec.result.minute \in 0..59

\* the booking ids a facility holds
IdsIn(bookings) == {bookings[i].id : i \in 1..Len(bookings)}

\* C37: no BookingId is held twice, in one facility or in two; a Book that
\* succeeds stores its booking under an id that no facility held, and an
\* Offset or an Extend, whether it succeeds or fails, leaves every facility
\* with the ids it held.
C37_BookingIdsUnique ==
    /\ [](\A f, g \in AllFacilities :
            \A i \in 1..Len(facilities[f]) : \A j \in 1..Len(facilities[g]) :
                facilities[f][i].id = facilities[g][j].id => (f = g /\ i = j))
    /\ [][ handled' # handled =>
              /\ (last'.type = "Book" /\ last'.ok)
                 => /\ \A g \in AllFacilities \ {last'.req.facility_name} :
                           facilities'[g] = facilities[g]
                    /\ \E id \in IdsIn(facilities'[last'.req.facility_name]) :
                           /\ \A g \in AllFacilities : id \notin IdsIn(facilities[g])
                           /\ IdsIn(facilities'[last'.req.facility_name])
                                 = IdsIn(facilities[last'.req.facility_name]) \cup {id}
              /\ last'.type \in {"Offset", "Extend"}
                 => \A g \in AllFacilities : IdsIn(facilities'[g]) = IdsIn(facilities[g]) ]_vars

\* MR1 and MR2 both hold a booking, under different ids, and the booking of
\* MR1 has just been extended under the id it had
C37_Witness ==
    /\ last.kind = "handle" /\ last.type = "Extend" /\ last.ok
    /\ IdsIn(facilities["MR1"]) = {last.req.booking_id}
    /\ facilities["MR1"][1].booking.end_time # T1000
    /\ IdsIn(facilities["MR2"]) # {}

\* the facilities whose list of bookings this step changes
ChangedFacilities == {f \in AllFacilities : facilities'[f] # facilities[f]}

\* C38: a Book changes the bookings of no facility but the one it names; an
\* Offset, an Extend or a Cancel changes the bookings of no facility but the
\* one that held the booking id, and of none when no facility held it; an
\* Availability request changes no bookings and no subscriptions.
C38_OnlyOneFacilityChanges ==
    [][ handled' # handled =>
          /\ last'.type = "Book" => ChangedFacilities \subseteq {last'.req.facility_name}
          /\ last'.type \in {"Offset", "Extend", "Cancel"}
             => ChangedFacilities \subseteq {f \in AllFacilities :
                                               last'.req.booking_id \in IdsIn(facilities[f])}
          /\ last'.type = "Availability"
             => UNCHANGED <<facilities, monitoring_addresses>> ]_vars

\* MR1 and MR2 each held a booking, the one of MR1 has just been cancelled
\* and the one of MR2 is still there
C38_Witness ==
    /\ last.kind = "handle" /\ last.type = "Cancel" /\ last.ok
    /\ facilities["MR1"] = <<>>
    /\ Len(facilities["MR2"]) = 1
    /\ \E k \in 1..Len(handled) :
           handled[k].ok /\ handled[k].req.type = "Book" /\ handled[k].req.facility_name = "MR1"

\* the insert_entry calls made for an address, oldest first
InsertsFor(addr) == {i \in 1..Len(codec.inserted) : codec.inserted[i].addr = addr}

\* what a check of (addr, request_id) has to return from the calls made so far
LatestExchange(addr, request_id) ==
    IF InsertsFor(addr) = {} THEN [some |-> FALSE, data |-> ""]
    ELSE LET n == CHOOSE i \in InsertsFor(addr) : \A j \in InsertsFor(addr) : j <= i
         IN  IF codec.inserted[n].request_id = request_id
             THEN [some |-> TRUE, data |-> codec.inserted[n].response]
             ELSE [some |-> FALSE, data |-> ""]

\* C39: check(addr, id) returns the response of the most recent insert_entry
\* for addr when id is that call's request_id, and None in every other case:
\* for an address never inserted, for an id of an earlier insert_entry that a
\* later one for the same address replaced, and whatever was inserted for
\* other addresses.
C39_CheckReturnsLatestExchange ==
    codec.stage = "cache"
    => \A addr \in {"A", "B"} : \A request_id \in {101, 102} :
          DuplicatesCheck(codec.duplicates, addr, request_id) = LatestExchange(addr, request_id)

\* 101 and then 102 were inserted for "A" and something for "B" after them;
\* the check of ("A", 101) returned None and ("A", 102) is still answered
C39_Witness ==
    /\ codec.stage = "cache"
    /\ Len(codec.inserted) = 3
    /\ codec.inserted[1].addr = "A" /\ codec.inserted[1].request_id = 101
    /\ codec.inserted[2].addr = "A" /\ codec.inserted[2].request_id = 102
    /\ codec.inserted[3].addr = "B"
    /\ codec.result.addr = "A" /\ codec.result.request_id = 101 /\ ~codec.result.out.some
    /\ DuplicatesCheck(codec.duplicates, "A", 102).some

====
